---------------------------- MODULE Spec2Model ----------------------------
(***************************************************************************)
(* A model of python-sireader: the host side driver of SportIdent         *)
(* stations (src/sireader).  The serial line is modelled at the level of  *)
(* frames: the input buffer of the host is a sequence of frames, every    *)
(* frame carrying the outcome the response parser has on its bytes.       *)
(* Python exceptions are named by the kind of failure they report:        *)
(*   SIReaderTimeout      -> "Timeout"                                    *)
(*   SIReaderCardChanged  -> "CardChanged"                                *)
(*   SIReaderException    -> "InvalidCommand", "FramingError",            *)
(*                           "ChecksumError", "BufferNotEmpty",           *)
(*                           "WrongMode", "UnsupportedMode", "NoCard",    *)
(*                           "UnknownCardSeries", "UnknownCardType",      *)
(*                           "InvalidArgument", "NoReader", "Io"          *)
(*   builtin exceptions   -> "KeyError", "TypeError"                      *)
(* and "none" stands for a normal return.                                 *)
(***************************************************************************)
EXTENDS Integers, Sequences, FiniteSets, TLC

VARIABLES
    inbuf,          \* serial input buffer of the host: frames not yet read
    pending,        \* requests written to the port that the station has not answered
    stSys,          \* the station's 128 byte system value block (SYSVAL)
    stCard,         \* the card in the station's slot (a frame of Cards, or NoFrame)
    events,         \* number of unsolicited frames the station has sent
    station_code,   \* SIReader._station_code
    proto_config,   \* SIReader.proto_config (a dict: a function of its keys)
    sysval,         \* SIReader.sysval (<<>> for the empty string)
    next_offset,    \* SIReaderControl._next_offset (NoOffset for None)
    serial,         \* SIReader._serial and the ports of the machine
    backup,         \* the station's backup memory: its punch records
    sicard,         \* SIReaderReadout.sicard   (NoCard for None)
    cardtype,       \* SIReaderReadout.cardtype ("None" for None)
    op,             \* the host call in progress and the I/O it still has to do
    sent,           \* requests written to the port by the call in progress
    sendcmd,        \* the latest _send_command call: what it wrote and read
    lastPoll,       \* card state when poll_sicard last returned
    ret             \* outcome of the last completed host call

vars == <<inbuf, pending, stSys, stCard, events, station_code, proto_config,
          sysval, next_offset, serial, backup, sicard, cardtype, op, sent,
          sendcmd, lastPoll, ret>>

stationVars == <<stSys, stCard, events, backup>>
sessionVars == <<station_code, proto_config, sysval, next_offset, serial>>
cardVars == <<sicard, cardtype>>

(***************************************************************************)
(* Protocol constants (si_constants.py), in decimal.                      *)
(***************************************************************************)
C_GET_BACKUP  == 129
C_SET_SYS_VAL == 130
C_GET_SYS_VAL == 131
C_GET_SI5     == 177
C_TRANS_REC   == 211
C_GET_SI6     == 225
C_SI5_DET     == 229
C_SI6_DET     == 230
C_SI_REM      == 231
C_SI9_DET     == 232
C_GET_SI9     == 239
C_SET_MS      == 240
C_SET_BAUD    == 254

NoCard == -1
NoOffset == -1
NoTime == -1
TIME_RESET == <<238, 238>>
B4800 == 4800
B38400 == 38400

NoRet == [op |-> "none", exc |-> "none"]

NoFrame == [kind |-> "none", cmd |-> 0, station |-> 0, data |-> <<>>]

\* the empty dict {}
EmptyDict == [k \in {} |-> FALSE]

\* no host call in progress
Idle == [name |-> "idle", todo |-> <<>>, fin |-> <<>>, saved |-> "none",
         raw |-> <<>>, old |-> NoCard, loop |-> FALSE, cur |-> NoFrame,
         log |-> <<>>, catch |-> FALSE, arg |-> <<>>]

\* the serial side of a session connected to the station on port "a"
Connected == [port |-> "a", baud |-> B38400, open |-> {"a"}, lost |-> {},
              stations |-> [x \in {"a"} |-> "38400"]]

NoSend == [cmd |-> 0, writes |-> 0, reads |-> 0, taken |-> 0, exc |-> "none",
           done |-> FALSE, bufBefore |-> <<>>, bufAfter |-> <<>>]

(***************************************************************************)
(* Python helpers.                                                        *)
(***************************************************************************)
Min(a, b) == IF a < b THEN a ELSE b

\* s[a:b] of Python, on a sequence indexed from 1
Slice(s, a, b) == SubSeq(s, a + 1, Min(b, Len(s)))

\* SIReader._to_int: big-endian value of a byte string
RECURSIVE ToInt(_)
ToInt(s) == IF s = <<>> THEN 0
            ELSE ToInt(SubSeq(s, 1, Len(s) - 1)) * 256 + s[Len(s)]

\* a _decode_cardnr that prints the series from series 1 on
DecodeCardnrSeries1(number) ==
    IF Slice(number, 0, 1) # <<0>>
    THEN [exc |-> "UnknownCardSeries", val |-> NoCard]
    ELSE LET nr == ToInt(Slice(number, 1, 4)) IN
         IF nr < 500000
         THEN LET r == ToInt(Slice(number, 2, 4)) IN
              IF Len(number) < 2
              THEN [exc |-> "IndexError", val |-> NoCard]
              ELSE IF number[2] < 1
              THEN [exc |-> "none", val |-> r]
              ELSE [exc |-> "none", val |-> number[2] * 100000 + r]
         ELSE [exc |-> "none", val |-> nr]

\* SIReader._decode_cardnr
DecodeCardnr(number) ==
    IF Slice(number, 0, 1) # <<0>>
    THEN [exc |-> "UnknownCardSeries", val |-> NoCard]
    ELSE LET nr == ToInt(Slice(number, 1, 4)) IN
         IF nr < 500000
         THEN LET r == ToInt(Slice(number, 2, 4)) IN
              IF Len(number) < 2
              THEN [exc |-> "IndexError", val |-> NoCard]
              ELSE IF number[2] < 2
              THEN [exc |-> "none", val |-> r]
              ELSE [exc |-> "none", val |-> number[2] * 100000 + r]
         ELSE [exc |-> "none", val |-> nr]

\* SIReader._decode_time without PTD byte, up to the reference day: the
\* seconds in the half day, or None for TIME_RESET
DecodeTime(raw_time) ==
    IF raw_time = TIME_RESET THEN NoTime ELSE ToInt(raw_time)

(***************************************************************************)
(* SIReader._read_command on the frame at the head of the input buffer.   *)
(* A frame is [kind, cmd, station, data]; kind is what its bytes are to   *)
(* the parser: "ok" a well formed frame, "nak" a NAK byte, "stx" a byte   *)
(* that is neither STX nor NAK, "etx" a frame whose last byte is not ETX, *)
(* "crc" a frame whose CRC does not match.                                *)
(***************************************************************************)
BaseReadCommand(buf, sc) ==
    IF buf = <<>>
    THEN [exc |-> "Timeout", cmd |-> 0, data |-> <<>>, buf |-> buf, sc |-> sc]
    ELSE LET f == Head(buf) IN
         CASE f.kind = "nak" ->
                [exc |-> "InvalidCommand", cmd |-> 0, data |-> <<>>,
                 buf |-> Tail(buf), sc |-> sc]
           [] f.kind = "stx" ->
                [exc |-> "FramingError", cmd |-> 0, data |-> <<>>,
                 buf |-> <<>>, sc |-> sc]
           [] f.kind = "etx" ->
                [exc |-> "FramingError", cmd |-> 0, data |-> <<>>,
                 buf |-> Tail(buf), sc |-> f.station]
           [] f.kind = "crc" ->
                [exc |-> "ChecksumError", cmd |-> 0, data |-> <<>>,
                 buf |-> Tail(buf), sc |-> f.station]
           [] OTHER ->
                [exc |-> "none", cmd |-> f.cmd, data |-> f.data,
                 buf |-> Tail(buf), sc |-> f.station]

(***************************************************************************)
(* SIReaderReadout._read_command: the card events are intercepted.        *)
(***************************************************************************)
Si9CardTypeShifted(n) ==
    IF n > 2000000 /\ n <= 2999999 THEN "SI8"
    ELSE IF n >= 1000000 /\ n <= 1999999 THEN "SI9"
    ELSE IF n >= 4000000 /\ n <= 4999999 THEN "pCard"
    ELSE IF n >= 7000000 /\ n < 9999999 THEN "SI10"
    ELSE "unknown"

Si9CardType(n) ==
    IF n >= 2000000 /\ n <= 2999999 THEN "SI8"
    ELSE IF n >= 1000000 /\ n <= 1999999 THEN "SI9"
    ELSE IF n >= 4000000 /\ n <= 4999999 THEN "pCard"
    ELSE IF n >= 7000000 /\ n <= 9999999 THEN "SI10"
    ELSE "unknown"

ReadoutReadCommand(buf, sc, card, ctype) ==
    LET r == BaseReadCommand(buf, sc)
        same == [exc |-> r.exc, cmd |-> r.cmd, data |-> r.data, buf |-> r.buf,
                 sc |-> r.sc, sicard |-> card, cardtype |-> ctype]
    IN
    IF r.exc # "none" THEN same
    ELSE IF r.cmd = C_SI_REM
         THEN [same EXCEPT !.exc = "CardChanged", !.sicard = NoCard,
                           !.cardtype = "None"]
    ELSE IF r.cmd = C_SI5_DET
         THEN LET d == DecodeCardnr(r.data) IN
              IF d.exc # "none" THEN [same EXCEPT !.exc = d.exc]
              ELSE [same EXCEPT !.exc = "CardChanged", !.sicard = d.val,
                                !.cardtype = "SI5"]
    ELSE IF r.cmd = C_SI6_DET
         THEN [same EXCEPT !.exc = "CardChanged", !.sicard = ToInt(r.data),
                           !.cardtype = "SI6"]
    ELSE IF r.cmd = C_SI9_DET
         THEN LET n == ToInt(Slice(r.data, 1, Len(r.data)))
                  t == Si9CardType(n) IN
              IF t = "unknown"
              THEN [same EXCEPT !.exc = "UnknownCardType", !.sicard = n]
              ELSE [same EXCEPT !.exc = "CardChanged", !.sicard = n,
                                !.cardtype = t]
    ELSE same

(***************************************************************************)
(* SpecFrame: the frame dispatch of SIReaderReadout on its own.  Any      *)
(* frame of FrameInputs may be in the buffer when _read_command is        *)
(* called; ret records the frame read and the card state before it.       *)
(***************************************************************************)
Bytes3(n) == <<n \div 65536, (n \div 256) % 256, n % 256>>

CardNumbers == {73819, 131077, 999999, 1000000, 1999999, 2000000, 2999999,
                3000000, 3999999, 4000000, 4999999, 5000000, 6999999,
                7000000, 9999999, 10000000}

DetData == { <<b0>> \o Bytes3(n) : b0 \in {0, 15}, n \in CardNumbers }

FrameInputs ==
    [kind : {"ok"},
     cmd : {C_SI_REM, C_SI5_DET, C_SI6_DET, C_SI9_DET, C_GET_SI5, C_TRANS_REC},
     station : {42}, data : DetData]
    \cup [kind : {"nak", "stx", "etx", "crc"}, cmd : {C_SI9_DET},
          station : {42}, data : {<<0>> \o Bytes3(2000000)}]

InitFrame ==
    /\ inbuf = <<>>
    /\ pending = <<>>
    /\ stSys = <<>>
    /\ stCard = NoFrame
    /\ events = 0
    /\ station_code = 0
    /\ proto_config = EmptyDict
    /\ sysval = <<>>
    /\ next_offset = NoOffset
    /\ serial = Connected
    /\ backup = <<>>
    /\ sicard = NoCard
    /\ cardtype = "None"
    /\ op = Idle
    /\ sent = <<>>
    /\ sendcmd = NoSend
    /\ lastPoll = <<NoCard, "None">>
    /\ ret = NoRet

FrameArrives ==
    /\ inbuf = <<>>
    /\ \E f \in FrameInputs : inbuf' = <<f>>
    /\ ret' = NoRet
    /\ UNCHANGED <<pending, stationVars, sessionVars, cardVars, op, sent, sendcmd,
                   lastPoll>>

DispatchFrame ==
    /\ inbuf # <<>>
    /\ LET r == ReadoutReadCommand(inbuf, station_code, sicard, cardtype) IN
        /\ inbuf' = r.buf
        /\ station_code' = r.sc
        /\ sicard' = r.sicard
        /\ cardtype' = r.cardtype
        /\ ret' = [op |-> "_read_command", exc |-> r.exc, frame |-> Head(inbuf),
                   before |-> <<sicard, cardtype>>]
    /\ UNCHANGED <<pending, stationVars, proto_config, sysval, next_offset,
                   serial, op, sent, sendcmd, lastPoll>>

NextFrame == FrameArrives \/ DispatchFrame

SpecFrame == InitFrame /\ [][NextFrame]_vars

(***************************************************************************)
(* The station's system value block and the host's view of it.            *)
(***************************************************************************)
O_SERIAL_NO     == 0
O_BACKUP_PTR_HI == 28
O_BACKUP_PTR_LO == 33
O_SI6_CB        == 51
O_MODE          == 113
O_STATION_CODE  == 114
O_FEEDBACK      == 115
O_PROTO         == 116
O_ACTIVE_TIME   == 126
SysvalLen       == 128

M_CONTROL   == 2
M_START     == 3
M_FINISH    == 4
M_READOUT   == 5
M_CLEAR_OLD == 6
M_CLEAR     == 7
M_CHECK     == 10
SUPPORTED_MODES == {M_CONTROL, M_START, M_FINISH, M_READOUT, M_CLEAR, M_CHECK}
SUPPORTED_READ_BACKUP_MODES ==
    {M_CONTROL, M_START, M_FINISH, M_CLEAR_OLD, M_CLEAR, M_CHECK}

P_SI6_CB == 8

\* bit i of byte b
Bit(b, i) == (b \div (2 ^ i)) % 2 = 1
B2N(x) == IF x THEN 1 ELSE 0

\* SIReader._extract_sysval: the data of a C_GET_SYS_VAL reply starts with a
\* byte the offsets do not count
ExtractSysval(bytearr, offset, length) ==
    Slice(bytearr, offset + 1, offset + 1 + length)

\* SIReader._update_proto_config, the part after the reply has arrived
ParseProtoConfig(data) ==
    IF ExtractSysval(data, O_PROTO, 1) = <<>>
    THEN [exc |-> "IndexError", cfg |-> EmptyDict]
    ELSE LET config_byte == ExtractSysval(data, O_PROTO, 1)[1]
             mode_byte == ExtractSysval(data, O_MODE, 1)[1]
         IN [exc |-> "none",
             cfg |-> [ext_proto |-> Bit(config_byte, 0),
                      auto_send |-> Bit(config_byte, 1),
                      handshake |-> Bit(config_byte, 2),
                      pw_access |-> Bit(config_byte, 4),
                      punch_read |-> Bit(config_byte, 7),
                      mode |-> mode_byte]]

ConfigKeys ==
    {"ext_proto", "auto_send", "handshake", "pw_access", "punch_read", "mode"}

\* SIReader._set_proto_config: the protocol byte written back
PackProtoConfig(config) ==
    B2N(config.ext_proto) + 2 * B2N(config.auto_send)
        + 4 * B2N(config.handshake) + 16 * B2N(config.pw_access)
        + 128 * B2N(config.punch_read)

\* a station's SYSVAL block with the given mode, code, feedback and protocol
MakeSys(mode, code, fb, proto) ==
    [i \in 1..SysvalLen |->
        CASE i - 1 = O_MODE -> mode
          [] i - 1 = O_STATION_CODE -> code
          [] i - 1 = O_FEEDBACK -> fb
          [] i - 1 = O_PROTO -> proto
          [] OTHER -> 0]

\* the station stores bytes at an offset of the block (C_SET_SYS_VAL)
WriteSys(sys, offset, bytes) ==
    [i \in 1..Len(sys) |->
        IF i - 1 >= offset /\ i - 1 < offset + Len(bytes)
        THEN bytes[i - offset] ELSE sys[i]]

\* the station code field of the station's frames
StationField(sys) ==
    IF sys = <<>> THEN 0
    ELSE sys[O_STATION_CODE + 1] + 256 * (sys[O_FEEDBACK + 1] \div 64)

Frame(sys, cmd, data) ==
    [kind |-> "ok", cmd |-> cmd, station |-> StationField(sys), data |-> data]

NakFrame == [kind |-> "nak", cmd |-> 0, station |-> 0, data |-> <<>>]

(***************************************************************************)
(* The station.                                                            *)
(***************************************************************************)
MaxEvents  == 2
MaxPending == 1

\* cards that may be put into the slot: the insert frame the station sends
Cards == {[cmd |-> C_SI5_DET, data |-> <<0, 1, 32, 91>>],
          [cmd |-> C_SI6_DET, data |-> <<0>> \o Bytes3(500001)],
          [cmd |-> C_SI9_DET, data |-> <<15>> \o Bytes3(2000000)],
          [cmd |-> C_SI9_DET, data |-> <<15>> \o Bytes3(7000001)]}

\* one block of card memory, as the station sends it: the block number, a
\* byte of the card in the slot and a byte only this block has
CardBlock(card, b) == <<b, card.data[4], 100 + b>>

REC_LEN  == 8
BUX_FIRST == 2
BUX_SIZE == 8
BUX_CN   == 0
BUX_YM   == 3
BUX_MDAP == 4
BUX_SECS == 5
BUX_MS   == 7
BUL_SIZE == 6
PageLen  == 128
T_OFFSET == 8
T_CN     == 0
T_TIME   == 5
BC_CN    == 3
BC_TIME  == 8
BackupBase == 256

\* SIReader._to_str: i in len bytes, most significant first
RECURSIVE ToStr(_, _)
ToStr(i, len) ==
    IF len = 0 THEN <<>> ELSE Append(ToStr(i \div 256, len - 1), i % 256)

\* bytes of the backup memory from address a on; unwritten memory reads 255
MemBytes(mem, a, n) ==
    [i \in 1..n |->
        IF a + i - 1 < BackupBase \/ a + i - 1 >= BackupBase + Len(mem)
        THEN 255 ELSE mem[a + i - BackupBase]]

\* the i-th punch the station records: card number (3 bytes), date (2),
\* seconds (2), subseconds (1); the second one is of a card of series 1 on
\* 2023-03-01 at 14:00:00.5; the seventh to the thirteenth have month 0,
\* month 13, an error code, an error code with month 15, odd subseconds,
\* the largest seconds in the afternoon and the 29th of February
PunchRecord(i) ==
    CASE i = 2 -> <<1, 0, 42, 92, 195, 28, 32, 128>>
      [] i = 7 -> <<0, 0, 40 + i, 96, 11, 0, 10 + i, 1>>
      [] i = 8 -> <<0, 0, 40 + i, 99, 126, 0, 10 + i, 2>>
      [] i = 9 -> <<0, 0, 40 + i, 97, 71, 243, 10 + i, 128>>
      [] i = 10 -> <<0, 0, 40 + i, 99, 194, 250, 10 + i, 0>>
      [] i = 11 -> <<0, 0, 40 + i, 97, 70, 0, 10 + i, 6>>
      [] i = 12 -> <<0, 0, 40 + i, 97, 71, 239, 255, 255>>
      [] i = 13 -> <<0, 0, 40 + i, 96, 186, 0, 10 + i, 3>>
      [] OTHER -> <<0, 0, 40 + i, 97, 70, 0, 10 + i, 0>>

\* the same in the legacy layout: card number (2 bytes), seconds (2), PTD,
\* card number series
LegacyRecord(i) == <<0, 40 + i, 0, 10 + i, 0, 0>>

\* the station's block with the backup pointer (end of the used memory)
SetBackupPtr(sys, end) ==
    WriteSys(WriteSys(sys, O_BACKUP_PTR_HI,
                      <<end \div 16777216, (end \div 65536) % 256>>),
             O_BACKUP_PTR_LO, <<(end \div 256) % 256, end % 256>>)

\* data of the C_TRANS_REC frame for a record stored at offset off
TransRecData(rec, off) ==
    <<0>> \o SubSeq(rec, 1, 3) \o <<0>> \o SubSeq(rec, 6, 7) \o <<rec[8]>>
        \o ToStr(off, 3)

\* the frames the station answers a request with, and its block afterwards
StationAnswer(q, sys, card, mem) ==
    IF q.cmd = C_GET_BACKUP
    THEN [sys |-> sys,
          frames |-> <<Frame(sys, q.cmd,
                             SubSeq(q.par, 1, 3)
                                 \o MemBytes(mem, ToInt(SubSeq(q.par, 1, 3)),
                                             q.par[4]))>>]
    ELSE
    IF q.cmd = C_SET_SYS_VAL
    THEN LET w == WriteSys(sys, q.par[1], Tail(q.par)) IN
         [sys |-> w, frames |-> <<Frame(w, q.cmd, <<q.par[1]>>)>>]
    ELSE IF q.cmd = C_GET_SYS_VAL
    THEN [sys |-> sys,
          frames |-> <<Frame(sys, q.cmd, <<q.par[1]>>
                         \o SubSeq(sys, q.par[1] + 1, q.par[1] + q.par[2]))>>]
    ELSE IF q.cmd \in {C_GET_SI5, C_GET_SI6, C_GET_SI9} /\ card.kind = "none"
    THEN [sys |-> sys, frames |-> <<NakFrame>>]
    ELSE IF q.cmd = C_GET_SI5
    THEN [sys |-> sys, frames |-> <<Frame(sys, q.cmd, CardBlock(card, 0))>>]
    ELSE IF q.cmd = C_GET_SI6
    THEN [sys |-> sys,
          frames |-> [i \in 1..3 |->
                        Frame(sys, q.cmd, CardBlock(card, <<0, 6, 7>>[i]))]]
    ELSE IF q.cmd = C_GET_SI9 /\ q.par = <<P_SI6_CB>>
    THEN [sys |-> sys,
          frames |-> [i \in 1..5 |->
                        Frame(sys, q.cmd, CardBlock(card, <<0, 4, 5, 6, 7>>[i]))]]
    ELSE IF q.cmd = C_GET_SI9
    THEN [sys |-> sys, frames |-> <<Frame(sys, q.cmd, CardBlock(card, q.par[1]))>>]
    ELSE [sys |-> sys, frames |-> <<Frame(sys, q.cmd, <<>>)>>]

\* what the host receives from a station that talks at another speed
Garbage == [kind |-> "stx", cmd |-> 0, station |-> 0, data |-> <<>>]

\* the station behind the open port takes the oldest request: it answers it
\* if it listens at the speed of the host, and after its answer to C_SET_BAUD
\* it listens at the new speed; at another speed nothing or garbage comes
\* back, and nothing without a station
StationReply ==
    /\ pending # <<>>
    /\ serial.port \in DOMAIN serial.stations
    /\ LET a == StationAnswer(Head(pending), stSys, stCard, backup)
           st == serial.stations[serial.port]
       IN
        IF st = (IF serial.baud = B38400 THEN "38400" ELSE "4800")
        THEN /\ stSys' = a.sys
             /\ inbuf' = inbuf \o a.frames
             /\ serial' = IF Head(pending).cmd = C_SET_BAUD
                          THEN [serial EXCEPT !.stations[serial.port] =
                                    IF Head(pending).par = <<0>> THEN "4800"
                                    ELSE "38400"]
                          ELSE serial
        ELSE /\ stSys' = stSys
             /\ serial' = serial
             /\ \E noise \in BOOLEAN :
                 inbuf' = IF noise /\ st \in {"38400", "4800"}
                          THEN Append(inbuf, Garbage) ELSE inbuf
    /\ pending' = Tail(pending)
    /\ UNCHANGED <<stCard, events, backup, station_code, proto_config, sysval,
                   next_offset, cardVars, op, sent, sendcmd, lastPoll, ret>>

CardInserted ==
    /\ stCard.kind = "none"
    /\ events < MaxEvents
    /\ stSys[O_MODE + 1] = M_READOUT
    /\ \E c \in Cards :
        /\ stCard' = Frame(stSys, c.cmd, c.data)
        /\ inbuf' = Append(inbuf, Frame(stSys, c.cmd, c.data))
    /\ events' = events + 1
    /\ UNCHANGED <<pending, stSys, backup, sessionVars, cardVars, op, sent,
                   sendcmd, lastPoll, ret>>

MaxPunches == 4

\* a runner punches at the control: the record goes to the backup memory and,
\* in autosend mode, a C_TRANS_REC frame is sent, which the host may miss
StationPunch ==
    /\ Len(backup) < MaxPunches * REC_LEN
    /\ stSys[O_MODE + 1] = M_CONTROL
    /\ LET rec == PunchRecord(Len(backup) \div REC_LEN + 1)
           off == BackupBase + Len(backup)
       IN
        /\ backup' = backup \o rec
        /\ stSys' = SetBackupPtr(stSys, off + REC_LEN)
        /\ \E missed \in BOOLEAN :
            inbuf' = IF Bit(stSys[O_PROTO + 1], 1) /\ ~missed
                     THEN Append(inbuf, Frame(stSys, C_TRANS_REC,
                                              TransRecData(rec, off)))
                     ELSE inbuf
    /\ UNCHANGED <<pending, stCard, events, sessionVars, cardVars, op, sent,
                   sendcmd, lastPoll, ret>>

CardRemoved ==
    /\ stCard.kind # "none"
    /\ events < MaxEvents
    /\ inbuf' = Append(inbuf, Frame(stSys, C_SI_REM, stCard.data))
    /\ stCard' = NoFrame
    /\ events' = events + 1
    /\ UNCHANGED <<pending, stSys, backup, sessionVars, cardVars, op, sent,
                   sendcmd, lastPoll, ret>>

(***************************************************************************)
(* The host.  A call is a sequence of port operations (op.todo); op.fin   *)
(* is the body of a pending finally clause and op.saved the exception it  *)
(* re-raises.  _send_command is a "send" (the check of the input buffer   *)
(* and the write) followed by a "reply" (its call of _read_command); a    *)
(* "read" is a call of _read_command by the operation itself.             *)
(***************************************************************************)
Send(cmd, par) ==
    [k |-> "send", cmd |-> cmd, par |-> par, clr |-> FALSE, use |-> "none"]
Reply(use) ==
    [k |-> "reply", cmd |-> 0, par |-> <<>>, clr |-> FALSE, use |-> use]
Read(use) ==
    [k |-> "read", cmd |-> 0, par |-> <<>>, clr |-> FALSE, use |-> use]

SendCommand(cmd, par, use) == <<Send(cmd, par), Reply(use)>>

\* SIReader._update_proto_config of a connected session: the dict is emptied,
\* SYSVAL is requested and the reply parsed
UpdateProtoConfig ==
    <<[Send(C_GET_SYS_VAL, <<0, SysvalLen>>) EXCEPT !.clr = TRUE],
      Reply("config")>>

\* where the call goes on after a port operation that raised e ("none": it
\* returned); o is the call with that operation removed from o.todo
Advance(o, e) ==
    IF e # "none"
    THEN IF o.fin # <<>>
         THEN [o EXCEPT !.todo = o.fin, !.fin = <<>>, !.saved = e]
         ELSE IF o.catch THEN [o EXCEPT !.todo = <<>>, !.saved = e]
         ELSE Idle
    ELSE IF o.todo # <<>> THEN o
    ELSE IF o.fin # <<>> THEN [o EXCEPT !.todo = o.fin, !.fin = <<>>]
    ELSE IF o.loop THEN o
    ELSE Idle

Outcome(o, e) == IF e # "none" THEN e ELSE o.saved

Proceed(o, e) ==
    /\ op' = Advance(o, e)
    /\ ret' = IF Advance(o, e).name = "idle"
              THEN [op |-> o.name, exc |-> Outcome(o, e), val |-> o.raw,
                    log |-> o.log]
              ELSE NoRet

Begin(name, todo, fin, saved) ==
    /\ op' = [Idle EXCEPT !.name = name, !.todo = todo, !.fin = fin,
                          !.saved = saved]
    /\ ret' = NoRet

Fail(name, e) ==
    /\ op' = Idle
    /\ ret' = [op |-> name, exc |-> e, val |-> <<>>]

\* the station code sysval_code computes from the cached SYSVAL image
SysvalCodeOf(image) ==
    ToInt(ExtractSysval(image, O_STATION_CODE, 1))
        + 256 * (ToInt(ExtractSysval(image, O_FEEDBACK, 1)) \div 64)

\* the feedback byte set_feedback writes, from the cached SYSVAL image
FeedbackByte(image, audible, optical) ==
    LET f == ToInt(ExtractSysval(image, O_FEEDBACK, 1)) IN
    f - B2N(Bit(f, 0)) - 4 * B2N(Bit(f, 2)) + B2N(optical) + 4 * B2N(audible)

\* the parameter bytes of a request: literal, or computed when it is sent
Parameters(i, image) ==
    IF i.use = "feedback"
    THEN <<O_FEEDBACK, FeedbackByte(image, i.par[1], i.par[2])>>
    ELSE i.par

\* a _send_command that writes without looking at the input buffer
SendCommandWriteUnchecked(buf, q) ==
    [exc |-> "none", wrote |-> <<q>>, buf |-> buf]

\* SIReader._send_command up to the write
SendCommandWrite(buf, q) ==
    IF buf # <<>>
    THEN [exc |-> "BufferNotEmpty", wrote |-> <<>>, buf |-> buf]
    ELSE [exc |-> "none", wrote |-> <<q>>, buf |-> buf]

\* the station holds at most MaxPending unanswered requests
HostSend ==
    /\ op.todo # <<>>
    /\ Head(op.todo).k = "send"
    /\ Len(pending) < MaxPending
    /\ LET i == Head(op.todo)
           w == SendCommandWrite(inbuf, [cmd |-> i.cmd,
                                         par |-> Parameters(i, sysval)])
       IN
        /\ proto_config' = IF i.clr THEN EmptyDict ELSE proto_config
        /\ inbuf' = w.buf
        /\ pending' = IF w.wrote = <<>> THEN pending
                      ELSE Append(pending, w.wrote[1])
        /\ sent' = sent \o w.wrote
        /\ sendcmd' = [cmd |-> i.cmd, writes |-> Len(w.wrote), reads |-> 0,
                       taken |-> 0, exc |-> w.exc, done |-> w.exc # "none",
                       bufBefore |-> inbuf, bufAfter |-> w.buf]
        /\ Proceed([op EXCEPT !.todo = Tail(@)], w.exc)
    /\ UNCHANGED <<stationVars, station_code, sysval, next_offset, serial,
                   cardVars, lastPoll>>

\* _read_command of the session's class
ReadCommand(readout, buf, code, card, ctype) ==
    IF readout THEN ReadoutReadCommand(buf, code, card, ctype)
    ELSE LET r == BaseReadCommand(buf, code) IN
         [exc |-> r.exc, cmd |-> r.cmd, data |-> r.data, buf |-> r.buf,
          sc |-> r.sc, sicard |-> card, cardtype |-> ctype]

\* SIReaderControl._read_punch on the data of the reply
ReadPunch(data) ==
    LET d == DecodeCardnr(<<0>> \o Slice(data, BC_CN, BC_CN + 3)) IN
    [exc |-> d.exc, cn |-> d.val,
     tm |-> DecodeTime(Slice(data, BC_TIME, BC_TIME + 2))]

\* what the caller of _read_command does with the data of the frame it got:
\* the exception it raises, its results so far and its _next_offset
UseData(use, data, raw, nxt) ==
    CASE use = "block" ->
            [exc |-> "none", raw |-> raw \o Slice(data, 1, Len(data)),
             nxt |-> nxt]
      [] use = "block5" ->
            [exc |-> "none", raw |-> raw \o data, nxt |-> nxt]
      [] use = "feedback" ->
            [exc |-> "none",
             raw |-> <<ToInt(ExtractSysval(data, O_FEEDBACK, 1))>>,
             nxt |-> nxt]
      [] use = "code" ->
            [exc |-> "none", raw |-> <<SysvalCodeOf(data)>>, nxt |-> nxt]
      [] use = "punch" ->
            LET d == ReadPunch(data) IN
            IF d.exc # "none" THEN [exc |-> d.exc, raw |-> raw, nxt |-> nxt]
            ELSE [exc |-> "none",
                  raw |-> Append(raw, [cn |-> d.cn, tm |-> d.tm,
                                       src |-> "rec", off |-> nxt]),
                  nxt |-> nxt + REC_LEN]
      [] use = "ptr" ->
            [exc |-> "none",
             raw |-> <<ToInt(Slice(data, O_BACKUP_PTR_HI + 1,
                                   O_BACKUP_PTR_HI + 3)
                             \o Slice(data, O_BACKUP_PTR_LO + 1,
                                      O_BACKUP_PTR_LO + 3))>>,
             nxt |-> nxt]
      [] use = "page" ->
            [exc |-> "none", raw |-> raw \o Slice(data, BUX_FIRST + 1, Len(data)),
             nxt |-> nxt]
      [] use = "config" ->
            [exc |-> ParseProtoConfig(data).exc, raw |-> raw, nxt |-> nxt]
      [] OTHER -> [exc |-> "none", raw |-> raw, nxt |-> nxt]

HostRead(readout) ==
    /\ op.todo # <<>>
    /\ Head(op.todo).k \in {"reply", "read"}
    /\ LET i == Head(op.todo)
           r == ReadCommand(readout, inbuf, station_code, sicard, cardtype)
           ok == r.exc = "none"
           u == IF ok THEN UseData(i.use, r.data, op.raw, next_offset)
                ELSE [exc |-> r.exc, raw |-> op.raw, nxt |-> next_offset]
       IN
        /\ inbuf' = r.buf
        /\ station_code' = IF ok /\ i.use = "code" THEN SysvalCodeOf(r.data)
                           ELSE r.sc
        /\ sicard' = r.sicard
        /\ cardtype' = r.cardtype
        /\ proto_config' = IF ok /\ i.use = "config" /\ u.exc = "none"
                           THEN ParseProtoConfig(r.data).cfg ELSE proto_config
        /\ sysval' = IF ok /\ i.use \in {"sysval", "feedback", "code"}
                     THEN r.data ELSE sysval
        /\ next_offset' = u.nxt
        /\ sendcmd' = IF i.k = "reply"
                      THEN [sendcmd EXCEPT !.reads = @ + 1,
                                           !.taken = Len(inbuf) - Len(r.buf),
                                           !.exc = r.exc, !.done = TRUE]
                      ELSE sendcmd
        /\ Proceed([op EXCEPT !.todo = Tail(@), !.raw = u.raw,
                               !.log = IF ok /\ op.name = "read_sicard"
                                       THEN Append(@, r.data) ELSE @],
                   u.exc)
        /\ serial' = IF ok /\ i.use = "baud"
                     THEN [serial EXCEPT !.baud = op.arg] ELSE serial
    /\ UNCHANGED <<pending, stationVars, sent, lastPoll>>

(***************************************************************************)
(* SIReaderReadout.                                                        *)
(***************************************************************************)
\* the checks poll_sicard and read_sicard start with
ReadoutModeCheck(cfg) ==
    IF "ext_proto" \notin DOMAIN cfg THEN "KeyError"
    ELSE IF ~cfg.ext_proto THEN "WrongMode"
    ELSE IF cfg.mode # M_READOUT THEN "WrongMode"
    ELSE "none"

PollReturn(e, changed, card, ctype) ==
    /\ op' = Idle
    /\ ret' = [op |-> "poll_sicard", exc |-> e, val |-> changed,
               since |-> lastPoll]
    /\ lastPoll' = <<card, ctype>>

\* poll_sicard up to its loop
PollSicard ==
    /\ op.name = "idle"
    /\ sent' = <<>>
    /\ IF ReadoutModeCheck(proto_config) # "none"
       THEN PollReturn(ReadoutModeCheck(proto_config), FALSE, sicard, cardtype)
       ELSE IF inbuf = <<>>
       THEN PollReturn("none", FALSE, sicard, cardtype)
       ELSE /\ op' = [Idle EXCEPT !.name = "poll_sicard", !.old = sicard]
            /\ ret' = NoRet
            /\ UNCHANGED lastPoll
    /\ UNCHANGED <<inbuf, pending, stationVars, sessionVars, cardVars, sendcmd>>

\* one round of the loop of poll_sicard, and its return
PollSicardLoop ==
    /\ op.name = "poll_sicard"
    /\ IF inbuf # <<>>
       THEN LET r == ReadoutReadCommand(inbuf, station_code, sicard, cardtype) IN
            /\ inbuf' = r.buf
            /\ station_code' = r.sc
            /\ sicard' = r.sicard
            /\ cardtype' = r.cardtype
            /\ IF r.exc \in {"none", "CardChanged"}
               THEN UNCHANGED <<op, ret, lastPoll>>
               ELSE PollReturn(r.exc, FALSE, r.sicard, r.cardtype)
       ELSE /\ PollReturn("none", op.old # sicard, sicard, cardtype)
            /\ UNCHANGED <<inbuf, station_code, cardVars>>
    /\ UNCHANGED <<pending, stationVars, proto_config, sysval, next_offset,
                   serial, sent, sendcmd>>

\* read_sicard that stops one frame early for SI6 and SI10 cards
ReadProgramShort(t) ==
    CASE t = "SI5" -> SendCommand(C_GET_SI5, <<>>, "block5")
      [] t = "SI6" -> SendCommand(C_GET_SI6, <<P_SI6_CB>>, "block")
                        \o <<Read("block")>>
      [] t = "SI10" -> SendCommand(C_GET_SI9, <<P_SI6_CB>>, "block")
                        \o <<Read("block"), Read("block"), Read("block")>>
      [] OTHER -> SendCommand(C_GET_SI9, <<0>>, "block")
                        \o SendCommand(C_GET_SI9, <<1>>, "block")

\* the port operations of read_sicard for a card family
RECURSIVE BlockReads(_, _)
BlockReads(b, bc) ==
    IF b >= bc THEN <<>>
    ELSE SendCommand(C_GET_SI9, <<b>>, "block") \o BlockReads(b + 1, bc)

CardBC(t) == IF t = "SI10" THEN 8 ELSE 2

ReadProgram(t) ==
    CASE t = "SI5" -> SendCommand(C_GET_SI5, <<>>, "block5")
      [] t = "SI6" -> SendCommand(C_GET_SI6, <<P_SI6_CB>>, "block")
                        \o <<Read("block"), Read("block")>>
      [] t \in {"SI8", "SI9", "pCard"} -> BlockReads(0, CardBC(t))
      [] t = "SI10" -> SendCommand(C_GET_SI9, <<P_SI6_CB>>, "block")
                        \o <<Read("block"), Read("block"), Read("block"),
                             Read("block")>>
      [] OTHER -> <<>>

ReadSicard ==
    /\ op.name = "idle"
    /\ sent' = <<>>
    /\ IF ReadoutModeCheck(proto_config) # "none"
       THEN Fail("read_sicard", ReadoutModeCheck(proto_config))
       ELSE IF cardtype \notin {"SI5", "SI6", "SI8", "SI9", "pCard", "SI10"}
       THEN Fail("read_sicard", "NoCard")
       ELSE Begin("read_sicard", ReadProgram(cardtype), <<>>, "none")
    /\ UNCHANGED <<inbuf, pending, stationVars, sessionVars, cardVars, sendcmd,
                   lastPoll>>

(***************************************************************************)
(* Setters of the station configuration.                                  *)
(***************************************************************************)
\* SIReader._set_proto_config: packing a dict that lacks a key raises
\* KeyError inside the try, and the finally clause still runs; op.log keeps
\* the argument of the setter and the proto_config it copied
SetProtoConfig(name, config, arg) ==
    /\ op' = [Idle EXCEPT
                !.name = name,
                !.todo = IF ConfigKeys \ {"mode"} \subseteq DOMAIN config
                         THEN SendCommand(C_SET_SYS_VAL,
                                          <<O_PROTO, PackProtoConfig(config)>>,
                                          "drop")
                         ELSE UpdateProtoConfig,
                !.fin = IF ConfigKeys \ {"mode"} \subseteq DOMAIN config
                        THEN UpdateProtoConfig ELSE <<>>,
                !.saved = IF ConfigKeys \ {"mode"} \subseteq DOMAIN config
                          THEN "none" ELSE "KeyError",
                !.log = <<[arg |-> arg, cached |-> proto_config]>>]
    /\ ret' = NoRet

\* dict with one key set
DictSet(d, k, v) ==
    [x \in DOMAIN d \cup {k} |-> IF x = k THEN v ELSE d[x]]

SetExtendedProtocol ==
    /\ op.name = "idle"
    /\ sent' = <<>>
    /\ \E extended \in BOOLEAN :
        SetProtoConfig("set_extended_protocol",
                       DictSet(proto_config, "ext_proto", extended), extended)
    /\ UNCHANGED <<inbuf, pending, stationVars, sessionVars, cardVars, sendcmd,
                   lastPoll>>

SetAutosend ==
    /\ op.name = "idle"
    /\ sent' = <<>>
    /\ \E autosend \in BOOLEAN :
        SetProtoConfig("set_autosend",
                       DictSet(DictSet(proto_config, "auto_send", autosend),
                               "handshake", ~autosend),
                       autosend)
    /\ UNCHANGED <<inbuf, pending, stationVars, sessionVars, cardVars, sendcmd,
                   lastPoll>>

ModeArgs == {M_CONTROL, M_READOUT, M_CLEAR_OLD}

SetOperatingMode ==
    /\ op.name = "idle"
    /\ sent' = <<>>
    /\ \E mode \in ModeArgs :
        IF mode \notin SUPPORTED_MODES
        THEN Fail("set_operating_mode", "InvalidArgument")
        ELSE Begin("set_operating_mode",
                   SendCommand(C_SET_SYS_VAL, <<O_MODE, mode>>, "drop"),
                   UpdateProtoConfig, "none")
    /\ UNCHANGED <<inbuf, pending, stationVars, sessionVars, cardVars, sendcmd,
                   lastPoll>>

(***************************************************************************)
(* The cached SYSVAL image: refresh_sysval, a sysval_* getter and the     *)
(* setters that use the image.                                            *)
(***************************************************************************)
RefreshProgram(use) == SendCommand(C_GET_SYS_VAL, <<0, SysvalLen>>, use)

RefreshSysval ==
    /\ op.name = "idle"
    /\ sent' = <<>>
    /\ Begin("refresh_sysval", RefreshProgram("sysval"), <<>>, "none")
    /\ UNCHANGED <<inbuf, pending, stationVars, sessionVars, cardVars, sendcmd,
                   lastPoll>>

SysvalFeedback ==
    /\ op.name = "idle"
    /\ sent' = <<>>
    /\ IF Len(sysval) < SysvalLen
       THEN Begin("sysval_feedback", RefreshProgram("feedback"), <<>>, "none")
       ELSE /\ op' = Idle
            /\ ret' = [op |-> "sysval_feedback", exc |-> "none",
                       val |-> <<ToInt(ExtractSysval(sysval, O_FEEDBACK, 1))>>]
    /\ UNCHANGED <<inbuf, pending, stationVars, sessionVars, cardVars, sendcmd,
                   lastPoll>>

\* sysval_code: the code is computed from the cached image, which is
\* fetched only when there is none, and stored as the station code
SysvalCode ==
    /\ op.name = "idle"
    /\ sent' = <<>>
    /\ IF Len(sysval) < SysvalLen
       THEN /\ Begin("sysval_code", RefreshProgram("code"), <<>>, "none")
            /\ station_code' = station_code
       ELSE /\ op' = Idle
            /\ ret' = [op |-> "sysval_code", exc |-> "none",
                       val |-> <<SysvalCodeOf(sysval)>>]
            /\ station_code' = SysvalCodeOf(sysval)
    /\ UNCHANGED <<inbuf, pending, stationVars, proto_config, sysval,
                   next_offset, serial, cardVars, sendcmd, lastPoll>>

SetFeedback ==
    /\ op.name = "idle"
    /\ sent' = <<>>
    /\ \E audible \in BOOLEAN, optical \in BOOLEAN :
        Begin("set_feedback",
              (IF Len(sysval) < SysvalLen THEN RefreshProgram("sysval")
               ELSE <<>>)
              \o <<[Send(C_SET_SYS_VAL, <<audible, optical>>)
                        EXCEPT !.use = "feedback"],
                   Reply("drop")>>,
              <<>>, "none")
    /\ UNCHANGED <<inbuf, pending, stationVars, sessionVars, cardVars, sendcmd,
                   lastPoll>>

(***************************************************************************)
(* Spec: a connected SIReaderReadout session and its station.             *)
(***************************************************************************)
InitModes == {M_READOUT, M_CONTROL}
InitProtos == {4, 5}

Init ==
    /\ \E m \in InitModes, p \in InitProtos : stSys = MakeSys(m, 42, 5, p)
    /\ stCard = NoFrame
    /\ events = 0
    /\ inbuf = <<>>
    /\ pending = <<>>
    /\ station_code = StationField(stSys)
    /\ proto_config = ParseProtoConfig(<<0>> \o stSys).cfg
    /\ sysval = <<>>
    /\ next_offset = NoOffset
    /\ serial = Connected
    /\ backup = <<>>
    /\ sicard = NoCard
    /\ cardtype = "None"
    /\ op = Idle
    /\ sent = <<>>
    /\ sendcmd = NoSend
    /\ lastPoll = <<NoCard, "None">>
    /\ ret = NoRet

Next ==
    \/ PollSicard
    \/ PollSicardLoop
    \/ ReadSicard
    \/ SetExtendedProtocol
    \/ SetOperatingMode
    \/ HostSend
    \/ HostRead(TRUE)
    \/ StationReply
    \/ CardInserted
    \/ CardRemoved

Spec == Init /\ [][Next]_vars

(***************************************************************************)
(* Claims.                                                                 *)
(***************************************************************************)

\* C1: every successfully parsed frame read by SIReaderReadout._read_command
\* drives the card state: C_SI_REM empties it, C_SI5_DET sets (SI5,
\* decode_card_number(data)), C_SI6_DET sets (SI6, u_be(data)), C_SI9_DET sets
\* the family of the range of n = u_be(data[1:]) and fails with UnknownCardType
\* outside the four ranges; every accepted event raises CardChanged with the
\* state already updated; any other command leaves the card state as it was.
C1_FrameDrivesCardState ==
    (ret.op = "_read_command" /\ ret.frame.kind = "ok") =>
        LET f == ret.frame
            n == ToInt(Slice(f.data, 1, Len(f.data)))
            now == <<sicard, cardtype>>
            changed == ret.exc = "CardChanged"
        IN
        /\ f.cmd = C_SI_REM => changed /\ now = <<NoCard, "None">>
        /\ (f.cmd = C_SI5_DET /\ DecodeCardnr(f.data).exc = "none") =>
               changed /\ now = <<DecodeCardnr(f.data).val, "SI5">>
        /\ (f.cmd = C_SI5_DET /\ DecodeCardnr(f.data).exc # "none") =>
               ret.exc = "UnknownCardSeries" /\ now = ret.before
        /\ f.cmd = C_SI6_DET => changed /\ now = <<ToInt(f.data), "SI6">>
        /\ (f.cmd = C_SI9_DET /\ n \in 1000000..1999999) =>
               changed /\ now = <<n, "SI9">>
        /\ (f.cmd = C_SI9_DET /\ n \in 2000000..2999999) =>
               changed /\ now = <<n, "SI8">>
        /\ (f.cmd = C_SI9_DET /\ n \in 4000000..4999999) =>
               changed /\ now = <<n, "pCard">>
        /\ (f.cmd = C_SI9_DET /\ n \in 7000000..9999999) =>
               changed /\ now = <<n, "SI10">>
        /\ (f.cmd = C_SI9_DET /\ n \notin 1000000..2999999
              /\ n \notin 4000000..4999999 /\ n \notin 7000000..9999999) =>
               ret.exc = "UnknownCardType"
        /\ f.cmd \notin {C_SI_REM, C_SI5_DET, C_SI6_DET, C_SI9_DET} =>
               ret.exc = "none" /\ now = ret.before

\* C1 witness: a C_SI9_DET frame at the upper end of the SI10 range was read
\* while an SI5 card was recorded.
C1_Witness ==
    /\ ret.op = "_read_command"
    /\ ret.frame.kind = "ok"
    /\ ret.frame.cmd = C_SI9_DET
    /\ ret.before[2] = "SI5"
    /\ sicard = 9999999
    /\ cardtype = "SI10"
    /\ ret.exc = "CardChanged"

(***************************************************************************)
(* SpecSysval: a connected SIReader session that configures its station.  *)
(***************************************************************************)
NextSysval ==
    \/ SetOperatingMode
    \/ SetFeedback
    \/ SysvalFeedback
    \/ RefreshSysval
    \/ HostSend
    \/ HostRead(FALSE)
    \/ StationReply

SpecSysval == Init /\ [][NextSysval]_vars

(***************************************************************************)
(* SIReaderControl.poll_punch.  op.raw is the list punches (each entry    *)
(* also says where it came from), op.cur the frame being handled, op.log  *)
(* the frames read so far with the _next_offset held when they were read. *)
(***************************************************************************)
\* a recovery that fetches the first missed record only
RecoverOffsetsFirstOnly(nxt, cur) ==
    IF nxt < cur THEN <<nxt>> ELSE <<>>

\* the offsets _read_punch is called with for a frame at offset cur
RECURSIVE RecoverOffsets(_, _)
RecoverOffsets(nxt, cur) ==
    IF nxt < cur THEN <<nxt>> \o RecoverOffsets(nxt + REC_LEN, cur) ELSE <<>>

RECURSIVE ReadPunches(_)
ReadPunches(offsets) ==
    IF offsets = <<>> THEN <<>>
    ELSE SendCommand(C_GET_BACKUP, ToStr(Head(offsets), 3) \o <<REC_LEN>>,
                     "punch") \o ReadPunches(Tail(offsets))

PunchReturn(e, punches, log) ==
    /\ op' = Idle
    /\ ret' = [op |-> "poll_punch", exc |-> e, val |-> punches, log |-> log]

PollPunchCheck(cfg) ==
    IF "ext_proto" \notin DOMAIN cfg THEN "KeyError"
    ELSE IF ~cfg.ext_proto THEN "WrongMode"
    ELSE IF ~cfg.auto_send THEN "WrongMode"
    ELSE "none"

\* poll_punch up to its loop
PollPunch ==
    /\ op.name = "idle"
    /\ sent' = <<>>
    /\ IF PollPunchCheck(proto_config) # "none"
       THEN PunchReturn(PollPunchCheck(proto_config), <<>>, <<>>)
       ELSE /\ op' = [Idle EXCEPT !.name = "poll_punch", !.loop = TRUE]
            /\ ret' = NoRet
    /\ UNCHANGED <<inbuf, pending, stationVars, sessionVars, cardVars, sendcmd,
                   lastPoll>>

\* the loop of poll_punch reads the next frame
PollPunchRead ==
    /\ op.name = "poll_punch"
    /\ op.todo = <<>>
    /\ op.cur = NoFrame
    /\ LET r == BaseReadCommand(inbuf, station_code)
           cur_offset == ToInt(Slice(r.data, T_OFFSET, T_OFFSET + 3))
       IN
        /\ inbuf' = r.buf
        /\ station_code' = r.sc
        /\ IF r.exc = "Timeout" THEN PunchReturn("none", op.raw, op.log)
           ELSE IF r.exc # "none" THEN PunchReturn(r.exc, <<>>, op.log)
           ELSE /\ op' = [op EXCEPT
                            !.cur = [NoFrame EXCEPT !.kind = "ok",
                                                    !.cmd = r.cmd,
                                                    !.data = r.data],
                            !.log = Append(@, [cmd |-> r.cmd,
                                               off |-> cur_offset,
                                               held |-> next_offset]),
                            !.todo = IF r.cmd = C_TRANS_REC
                                        /\ next_offset # NoOffset
                                     THEN ReadPunches(
                                            RecoverOffsets(next_offset,
                                                           cur_offset))
                                     ELSE <<>>]
                /\ ret' = NoRet
    /\ UNCHANGED <<pending, stationVars, proto_config, sysval, next_offset,
                   serial, cardVars, sent, sendcmd, lastPoll>>

\* after the recovery of missed punches: _next_offset is set and the frame's
\* own punch appended
PollPunchAppend ==
    /\ op.name = "poll_punch"
    /\ op.todo = <<>>
    /\ op.cur # NoFrame
    /\ LET c == op.cur
           cur_offset == ToInt(Slice(c.data, T_OFFSET, T_OFFSET + 3))
           d == DecodeCardnr(Slice(c.data, T_CN, T_CN + 4))
       IN
        /\ next_offset' = IF c.cmd = C_TRANS_REC THEN cur_offset + REC_LEN
                          ELSE next_offset
        /\ IF d.exc # "none" THEN PunchReturn(d.exc, <<>>, op.log)
           ELSE /\ op' = [op EXCEPT
                            !.cur = NoFrame,
                            !.raw = Append(@,
                                [cn |-> d.val,
                                 tm |-> DecodeTime(Slice(c.data, T_TIME,
                                                         T_TIME + 2)),
                                 src |-> IF c.cmd = C_TRANS_REC THEN "cur"
                                         ELSE "other",
                                 off |-> cur_offset])]
                /\ ret' = NoRet
    /\ UNCHANGED <<inbuf, pending, stationVars, station_code, proto_config,
                   sysval, serial, cardVars, sent, sendcmd, lastPoll>>

(***************************************************************************)
(* SpecControl: a connected SIReaderControl session at a control station. *)
(***************************************************************************)
ControlProtos == {3, 5}

InitControl ==
    /\ \E p \in ControlProtos :
        stSys = SetBackupPtr(MakeSys(M_CONTROL, 42, 5, p), BackupBase)
    /\ stCard = NoFrame
    /\ events = 0
    /\ backup = <<>>
    /\ inbuf = <<>>
    /\ pending = <<>>
    /\ station_code = StationField(stSys)
    /\ proto_config = ParseProtoConfig(<<0>> \o stSys).cfg
    /\ sysval = <<>>
    /\ next_offset = NoOffset
    /\ serial = Connected
    /\ sicard = NoCard
    /\ cardtype = "None"
    /\ op = Idle
    /\ sent = <<>>
    /\ sendcmd = NoSend
    /\ lastPoll = <<NoCard, "None">>
    /\ ret = NoRet

NextControl ==
    \/ PollPunch
    \/ PollPunchRead
    \/ PollPunchAppend
    \/ HostSend
    \/ HostRead(FALSE)
    \/ StationReply
    \/ StationPunch

SpecControl == InitControl /\ [][NextControl]_vars

(***************************************************************************)
(* SIReader.read_backup.  op.cur.kind is the stage of the call: "config"  *)
(* while proto_config is re-fetched, "ptr" while the backup pointer is    *)
(* read, "pages" while the memory is read.                                *)
(***************************************************************************)
MODE2NAME == {1, 2, 3, 4, 5, 6, 7, 10, 11, 12, 13, 18, 19, 20, 21}

\* the GET_BACKUP requests of the paging loop
RECURSIVE Pages(_, _)
Pages(read_ptr, end_ptr) ==
    IF read_ptr < end_ptr
    THEN LET byte_cnt == IF end_ptr - read_ptr < PageLen
                         THEN end_ptr - read_ptr ELSE PageLen
         IN SendCommand(C_GET_BACKUP,
                        <<read_ptr \div 65536, (read_ptr \div 256) % 256,
                          read_ptr % 256, byte_cnt>>, "page")
            \o Pages(read_ptr + byte_cnt, end_ptr)
    ELSE <<>>

\* subseconds that are taken as thousandths of a second
MicrosecondsMilli(ms) == 1000 * ms

\* timedelta(microseconds=1e6 * ms / 256): the float is exact and is rounded
\* to the nearest microsecond, a half to the even one
Microseconds(ms) ==
    LET q == (15625 * ms) \div 4
        r == (15625 * ms) % 4
    IN IF r = 3 \/ (r = 2 /\ q % 2 = 1) THEN q + 1 ELSE q

DaysIn(year, month) ==
    IF month \in {4, 6, 9, 11} THEN 30
    ELSE IF month # 2 THEN 31
    ELSE IF year % 4 = 0 /\ (year % 100 # 0 \/ year % 400 = 0) THEN 29
    ELSE 28

\* a record decoder that takes the three card bytes as the number
DecodeExtRecordPlainNumber(punch) ==
    IF Len(punch) <= BUX_SECS
    THEN [exc |-> "IndexError", val |-> <<>>]
    ELSE LET ym == punch[BUX_YM + 1]
             mdap == punch[BUX_MDAP + 1]
             month0 == (ym % 4) * 4 + mdap \div 64
             year0 == 2000 + ym \div 4
             month == IF month0 = 0 THEN 12
                      ELSE IF month0 > 12 THEN month0 - 12 ELSE month0
             year == IF month0 = 0 THEN year0 - 1
                     ELSE IF month0 > 12 THEN year0 + 1 ELSE year0
             day == (mdap % 64) \div 2
             iserr == punch[BUX_SECS + 1] >= 240
             secs == IF iserr THEN 0
                     ELSE ToInt(Slice(punch, BUX_SECS, BUX_SECS + 2))
         IN IF day = 0 \/ day > DaysIn(year, month)
            THEN [exc |-> "ValueError", val |-> <<>>]
            ELSE [exc |-> "none",
                  val |-> [cn |-> ToInt(Slice(punch, BUX_CN, BUX_CN + 3)),
                           year |-> year, month |-> month, day |-> day,
                           secs |-> secs + 43200 * (mdap % 2),
                           us |-> IF iserr THEN 0
                                  ELSE Microseconds(
                                         ToInt(Slice(punch, BUX_MS,
                                                     BUX_MS + 1))),
                           x |-> IF iserr THEN punch[BUX_SECS + 1] % 16
                                 ELSE -1,
                           err |-> <<iserr, month0 = 0 \/ month0 > 12>>]]

\* one record of the extended protocol: x is the X of the tag ErrX (-1:
\* none), err tells which of the tags ErrX and ErrDate the record has
DecodeExtRecord(punch) ==
    IF Len(punch) <= BUX_SECS
    THEN [exc |-> "IndexError", val |-> <<>>]
    ELSE LET ym == punch[BUX_YM + 1]
             mdap == punch[BUX_MDAP + 1]
             month0 == (ym % 4) * 4 + mdap \div 64
             year0 == 2000 + ym \div 4
             month == IF month0 = 0 THEN 12
                      ELSE IF month0 > 12 THEN month0 - 12 ELSE month0
             year == IF month0 = 0 THEN year0 - 1
                     ELSE IF month0 > 12 THEN year0 + 1 ELSE year0
             day == (mdap % 64) \div 2
             iserr == punch[BUX_SECS + 1] >= 240
             secs == IF iserr THEN 0
                     ELSE ToInt(Slice(punch, BUX_SECS, BUX_SECS + 2))
         IN IF day = 0 \/ day > DaysIn(year, month)
            THEN [exc |-> "ValueError", val |-> <<>>]
            ELSE [exc |-> "none",
                  val |-> [cn |-> DecodeCardnr(<<0>> \o Slice(punch, BUX_CN,
                                                             BUX_CN + 3)).val,
                           year |-> year, month |-> month, day |-> day,
                           secs |-> secs + 43200 * (mdap % 2),
                           us |-> IF iserr THEN 0
                                  ELSE Microseconds(
                                         ToInt(Slice(punch, BUX_MS,
                                                     BUX_MS + 1))),
                           x |-> IF iserr THEN punch[BUX_SECS + 1] % 16
                                 ELSE -1,
                           err |-> <<iserr, month0 = 0 \/ month0 > 12>>]]

\* the record loop of read_backup; a legacy record fails at the
\* concatenation of a str with bytes
RECURSIVE DecodeBackup(_, _)
DecodeBackup(bakmem, ext_proto) ==
    IF bakmem = <<>> THEN [exc |-> "none", val |-> <<>>]
    ELSE IF ~ext_proto THEN [exc |-> "TypeError", val |-> <<>>]
    ELSE LET d == DecodeExtRecord(Slice(bakmem, 0, BUX_SIZE))
             rest == DecodeBackup(Slice(bakmem, BUX_SIZE, Len(bakmem)),
                                  ext_proto)
         IN IF d.exc # "none" THEN [exc |-> d.exc, val |-> <<>>]
            ELSE IF rest.exc # "none" THEN rest
            ELSE [exc |-> "none", val |-> <<d.val>> \o rest.val]

ReadBackup ==
    /\ op.name = "idle"
    /\ sent' = <<>>
    /\ op' = [Idle EXCEPT !.name = "read_backup", !.loop = TRUE,
                          !.todo = UpdateProtoConfig,
                          !.cur = [NoFrame EXCEPT !.kind = "config"]]
    /\ ret' = NoRet
    /\ UNCHANGED <<inbuf, pending, stationVars, sessionVars, cardVars, sendcmd,
                   lastPoll>>

\* the mode check, and on to the backup pointer
ReadBackupMode ==
    /\ op.name = "read_backup"
    /\ op.todo = <<>>
    /\ op.cur.kind = "config"
    /\ IF proto_config.mode \in SUPPORTED_READ_BACKUP_MODES
       THEN /\ op' = [op EXCEPT !.todo = RefreshProgram("ptr"),
                                !.cur = [NoFrame EXCEPT !.kind = "ptr"]]
            /\ ret' = NoRet
       ELSE Fail("read_backup", IF proto_config.mode \in MODE2NAME
                                THEN "UnsupportedMode" ELSE "KeyError")
    /\ UNCHANGED <<inbuf, pending, stationVars, sessionVars, cardVars, sent,
                   sendcmd, lastPoll>>

\* end_ptr is known: on to the paging loop
ReadBackupPages ==
    /\ op.name = "read_backup"
    /\ op.todo = <<>>
    /\ op.cur.kind = "ptr"
    /\ op' = [op EXCEPT !.todo = Pages(BackupBase, op.raw[1]),
                        !.raw = <<>>,
                        !.old = op.raw[1],
                        !.cur = [NoFrame EXCEPT !.kind = "pages"]]
    /\ ret' = NoRet
    /\ UNCHANGED <<inbuf, pending, stationVars, sessionVars, cardVars, sent,
                   sendcmd, lastPoll>>

\* the memory is read: the record loop and the return
ReadBackupDecode ==
    /\ op.name = "read_backup"
    /\ op.todo = <<>>
    /\ op.cur.kind = "pages"
    /\ LET d == DecodeBackup(op.raw, proto_config.ext_proto) IN
        /\ op' = Idle
        /\ ret' = [op |-> "read_backup", exc |-> d.exc, val |-> d.val,
                   end |-> op.old, bytes |-> Len(op.raw)]
    /\ UNCHANGED <<inbuf, pending, stationVars, sessionVars, cardVars, sent,
                   sendcmd, lastPoll>>

(***************************************************************************)
(* SpecBackup: a connected session reads the backup memory of a station.  *)
(***************************************************************************)
MaxPages == 2

\* number of records in the memory, by protocol configuration byte
BackupInputs ==
    ({5} \X {0, 1, 16, 17, 16 * MaxPages + 1}) \cup ({4} \X {0, 1, 2})

BackupModes == {M_CONTROL, M_READOUT, 8}

RECURSIVE Records(_, _)
Records(n, ext_proto) ==
    IF n = 0 THEN <<>>
    ELSE Records(n - 1, ext_proto)
         \o (IF ext_proto THEN PunchRecord(n) ELSE LegacyRecord(n))

InitBackup ==
    /\ \E m \in BackupModes, i \in BackupInputs :
        /\ backup = Records(i[2], Bit(i[1], 0))
        /\ stSys = SetBackupPtr(MakeSys(m, 42, 5, i[1]),
                                BackupBase + Len(backup))
    /\ stCard = NoFrame
    /\ events = 0
    /\ inbuf = <<>>
    /\ pending = <<>>
    /\ station_code = StationField(stSys)
    /\ proto_config = ParseProtoConfig(<<0>> \o stSys).cfg
    /\ sysval = <<>>
    /\ next_offset = NoOffset
    /\ serial = Connected
    /\ sicard = NoCard
    /\ cardtype = "None"
    /\ op = Idle
    /\ sent = <<>>
    /\ sendcmd = NoSend
    /\ lastPoll = <<NoCard, "None">>
    /\ ret = NoRet

NextBackup ==
    \/ ReadBackup
    \/ ReadBackupMode
    \/ ReadBackupPages
    \/ ReadBackupDecode
    \/ HostSend
    \/ HostRead(FALSE)
    \/ StationReply

SpecBackup == InitBackup /\ [][NextBackup]_vars

(***************************************************************************)
(* SIReader.__init__, _connect_reader, disconnect and the closing of      *)
(* unreferenced Serial objects.  op.arg are the arguments (the ports      *)
(* still to try, scan: no port was given), op.cur.kind the place in       *)
(* _connect_reader, op.log the probes made so far.                        *)
(***************************************************************************)
P_MS_DIRECT == 77

\* exceptions that are neither SIReaderException nor SIReaderTimeout
Foreign == {"KeyError", "IndexError", "TypeError", "ValueError", "CardChanged"}

Stage(o, kind) == [o EXCEPT !.cur = [NoFrame EXCEPT !.kind = kind]]

Probe == SendCommand(C_SET_MS, <<P_MS_DIRECT>>, "drop")

\* proto_config of a session opened with noconnect
NoconnectConfig ==
    [ext_proto |-> TRUE, auto_send |-> TRUE, handshake |-> FALSE,
     pw_access |-> FALSE, punch_read |-> FALSE, mode |-> 2]

\* _connect_reader raised e: __init__ goes to the next candidate port of a
\* scan, gives up with "No SI Reader found", or lets e through
ConnectFailed(o, e) ==
    IF o.arg.scan /\ e \notin Foreign
    THEN IF Len(o.arg.ports) > 1
         THEN /\ op' = [Stage(o, "next") EXCEPT !.arg.ports = Tail(@),
                                                !.saved = "none"]
              /\ ret' = NoRet
         ELSE /\ op' = Idle
              /\ ret' = [op |-> "open", exc |-> "NoReader", val |-> <<>>,
                         log |-> o.log, arg |-> o.arg]
    ELSE /\ op' = Idle
         /\ ret' = [op |-> "open", exc |-> e, val |-> <<>>, log |-> o.log,
                    arg |-> o.arg]

ConnectDone(o) ==
    /\ op' = Idle
    /\ ret' = [op |-> "open", exc |-> "none", val |-> <<>>, log |-> o.log,
               arg |-> o.arg]

PortArgs == {<<"a">>, <<"b">>, <<"a", "b">>}

\* SIReader(port=..., lowspeed=..., noconnect=...); without port the
\* candidates of guess_serial_ports are tried in order
Open ==
    /\ op.name = "idle"
    /\ serial.port = "none"
    /\ sent' = <<>>
    /\ \E ports \in PortArgs, lowspeed \in BOOLEAN, noconnect \in BOOLEAN :
        op' = [Stage(Idle, "next") EXCEPT
                 !.name = "open", !.loop = TRUE, !.catch = TRUE,
                 !.arg = [ports |-> ports, scan |-> Len(ports) > 1,
                          lowspeed |-> lowspeed, noconnect |-> noconnect]]
    /\ ret' = NoRet
    /\ UNCHANGED <<inbuf, pending, stationVars, sessionVars, cardVars, sendcmd,
                   lastPoll>>

\* _connect_reader up to the first probe
ConnectReader ==
    /\ op.name = "open"
    /\ op.todo = <<>>
    /\ op.cur.kind = "next"
    /\ LET port == Head(op.arg.ports)
           baudrate == IF op.arg.noconnect \/ op.arg.lowspeed THEN B4800
                       ELSE B38400
           st == serial.stations[port]
           opened == [serial EXCEPT
                        !.port = port, !.baud = baudrate,
                        !.open = @ \cup {port},
                        !.lost = @ \cup ({serial.port} \cap serial.open)]
       IN
        IF st = "nodev"
        THEN /\ ConnectFailed(op, "OpenFailed")
             /\ UNCHANGED <<inbuf, pending, serial, proto_config,
                            station_code>>
        ELSE /\ serial' = opened
             /\ inbuf' = <<>>
             /\ pending' = <<>>
             /\ IF st = "dead"
                THEN /\ ConnectFailed(op, "FlushFailed")
                     /\ UNCHANGED <<proto_config, station_code>>
                ELSE IF op.arg.noconnect
                THEN /\ ConnectDone(op)
                     /\ proto_config' = NoconnectConfig
                     /\ station_code' = 0
                ELSE /\ op' = [Stage(op, "probe1") EXCEPT !.todo = Probe]
                     /\ ret' = NoRet
                     /\ UNCHANGED <<proto_config, station_code>>
    /\ UNCHANGED <<stationVars, sysval, next_offset, cardVars, sent, sendcmd,
                   lastPoll>>

\* _connect_reader after a probe: on to the second probe at 4800 baud, to
\* _update_proto_config, or out with the exception
ConnectProbed ==
    /\ op.name = "open"
    /\ op.todo = <<>>
    /\ op.cur.kind \in {"probe1", "probe2"}
    /\ LET e == op.saved
           o == [op EXCEPT !.saved = "none",
                           !.log = Append(@, [port |-> serial.port,
                                              baud |-> serial.baud,
                                              exc |-> e,
                                              n |-> IF op.cur.kind = "probe1"
                                                    THEN 1 ELSE 2])]
       IN
        IF e = "none"
        THEN /\ op' = [Stage(o, "update") EXCEPT !.todo = UpdateProtoConfig]
             /\ ret' = NoRet
             /\ UNCHANGED serial
        ELSE IF op.cur.kind = "probe1"
        THEN IF e \in Foreign \/ serial.baud = B4800
             THEN ConnectFailed(o, e) /\ UNCHANGED serial
             ELSE /\ serial' = [serial EXCEPT !.baud = B4800]
                  /\ op' = [Stage(o, "probe2") EXCEPT !.todo = Probe]
                  /\ ret' = NoRet
        ELSE /\ ConnectFailed(o, IF e \in Foreign \cup {"Timeout"} THEN e
                                 ELSE "NoReader")
             /\ UNCHANGED serial
    /\ UNCHANGED <<inbuf, pending, stationVars, station_code, proto_config,
                   sysval, next_offset, cardVars, sent, sendcmd, lastPoll>>

\* _connect_reader after _update_proto_config
ConnectUpdated ==
    /\ op.name = "open"
    /\ op.todo = <<>>
    /\ op.cur.kind = "update"
    /\ IF op.saved = "none" THEN ConnectDone(op)
       ELSE ConnectFailed(op, op.saved)
    /\ UNCHANGED <<inbuf, pending, stationVars, sessionVars, cardVars, sent,
                   sendcmd, lastPoll>>

Disconnect ==
    /\ op.name = "idle"
    /\ ret.op = "open"
    /\ ret.exc = "none"
    /\ serial' = [serial EXCEPT !.open = @ \ {serial.port}]
    /\ ret' = [op |-> "disconnect", exc |-> "none", val |-> <<>>]
    /\ UNCHANGED <<inbuf, pending, stationVars, station_code, proto_config,
                   sysval, next_offset, cardVars, op, sent, sendcmd, lastPoll>>

\* Serial objects nothing refers to any more are closed when they are
\* collected, at a time the program does not choose: those replaced during
\* a scan, and after a failed __init__ the one of the session object
Finalize ==
    /\ LET dead == serial.lost \cup
                   (IF ret.op = "open" /\ ret.exc # "none"
                    THEN {serial.port} \cap serial.open ELSE {})
       IN /\ dead # {}
          /\ serial' = [serial EXCEPT !.open = @ \ dead, !.lost = {}]
    /\ UNCHANGED <<inbuf, pending, stationVars, station_code, proto_config,
                   sysval, next_offset, cardVars, op, sent, sendcmd, lastPoll,
                   ret>>

(***************************************************************************)
(* SpecConnect: opening a session on a machine with two serial ports.     *)
(***************************************************************************)
\* behind a port: no device node, a node that cannot be flushed, no station,
\* or a station listening at 4800 or 38400 baud
PortKinds == {"nodev", "dead", "none", "4800", "38400"}

InitConnect ==
    /\ \E st \in [{"a", "b"} -> PortKinds] :
        serial = [port |-> "none", baud |-> 0, open |-> {}, lost |-> {},
                  stations |-> st]
    /\ stSys = MakeSys(M_READOUT, 42, 5, 5)
    /\ stCard = NoFrame
    /\ events = 0
    /\ backup = <<>>
    /\ inbuf = <<>>
    /\ pending = <<>>
    /\ station_code = 0
    /\ proto_config = EmptyDict
    /\ sysval = <<>>
    /\ next_offset = NoOffset
    /\ sicard = NoCard
    /\ cardtype = "None"
    /\ op = Idle
    /\ sent = <<>>
    /\ sendcmd = NoSend
    /\ lastPoll = <<NoCard, "None">>
    /\ ret = NoRet

NextConnect ==
    \/ Open
    \/ ConnectReader
    \/ ConnectProbed
    \/ ConnectUpdated
    \/ Disconnect
    \/ Finalize
    \/ HostSend
    \/ HostRead(FALSE)
    \/ StationReply

SpecConnect == InitConnect /\ [][NextConnect]_vars

(***************************************************************************)
(* SIReader.scan_stations on a machine with two serial ports: one thread  *)
(* per candidate port runs _run.  op.todo are the ports whose thread is   *)
(* still to be started, op.log[p] the place of the thread of port p in    *)
(* _run, op.raw the shared list found.                                    *)
(***************************************************************************)
\* whether SIReader(port=..., lowspeed=...) can find the station behind a
\* port: the first probe is made at 4800 baud with lowspeed, else at 38400
\* baud with a second one at 4800 baud
CanConnect(st, lowspeed) == st = "4800" \/ (st = "38400" /\ ~lowspeed)

\* the calling thread: it starts the threads in the order of the candidates,
\* joins them all and returns found
ScanStations ==
    /\ \/ /\ op.name = "idle"
          /\ ret = NoRet
          /\ \E lowspeed \in BOOLEAN :
              op' = [Idle EXCEPT !.name = "scan_stations",
                                 !.todo = <<"a", "b">>,
                                 !.log = [port \in {"a", "b"} |-> "new"],
                                 !.arg = [lowspeed |-> lowspeed]]
          /\ ret' = NoRet
       \/ /\ op.name = "scan_stations"
          /\ op.todo # <<>>
          /\ op' = [op EXCEPT !.todo = Tail(@),
                              !.log[Head(op.todo)] = "init"]
          /\ ret' = NoRet
       \/ /\ op.name = "scan_stations"
          /\ op.todo = <<>>
          /\ \A port \in DOMAIN op.log : op.log[port] \in {"done", "failed"}
          /\ op' = Idle
          /\ ret' = [op |-> "scan_stations", exc |-> "none", val |-> op.raw,
                     log |-> op.log]
    /\ UNCHANGED <<inbuf, pending, stationVars, sessionVars, cardVars, sent,
                   sendcmd, lastPoll>>

\* a step of the thread of a port: the constructor, which opens the port and
\* ends the thread with its exception when it finds no station (the opened
\* Serial object is then left to the collector); found.append; disconnect
Run(port) ==
    /\ op.name = "scan_stations"
    /\ LET st == serial.stations[port] IN
       CASE op.log[port] = "init" ->
                \E connected \in {CanConnect(st, op.arg.lowspeed), FALSE} :
                    /\ op' = [op EXCEPT !.log[port] = IF connected THEN "append"
                                                      ELSE "failed"]
                    /\ serial' = [serial EXCEPT
                                    !.open = IF st = "nodev" THEN @
                                             ELSE @ \cup {port},
                                    !.lost = IF st = "nodev" \/ connected THEN @
                                             ELSE @ \cup {port}]
         [] op.log[port] = "append" ->
                /\ op' = [op EXCEPT
                            !.log[port] = "disconnect",
                            !.raw = Append(@, <<port, StationField(stSys)>>)]
                /\ serial' = serial
         [] op.log[port] = "disconnect" ->
                /\ op' = [op EXCEPT !.log[port] = "done"]
                /\ serial' = [serial EXCEPT !.open = @ \ {port}]
         [] OTHER -> FALSE
    /\ UNCHANGED <<inbuf, pending, stationVars, station_code, proto_config,
                   sysval, next_offset, cardVars, sent, sendcmd, lastPoll, ret>>

NextScan ==
    \/ ScanStations
    \/ \E port \in {"a", "b"} : Run(port)
    \/ Finalize

SpecScan == InitConnect /\ [][NextScan]_vars

(***************************************************************************)
(* The frames as bytes: SIReader._crc, the bytes _send_command writes and *)
(* _read_command on the bytes in the input buffer.                        *)
(***************************************************************************)
CRC_POLYNOM == 32773
CRC_BITF == 32768
STX == 2
ETX == 3
NAK == 21
WAKEUP == 255

\* a ^ b
RECURSIVE Xor(_, _)
Xor(a, b) ==
    IF a = 0 THEN b
    ELSE IF b = 0 THEN a
    ELSE ((a + b) % 2) + 2 * Xor(a \div 2, b \div 2)

\* twochars of _crc: s, padded with zero bytes, in parts of two bytes
TwoChars(s) ==
    IF Len(s) = 0 THEN <<>>
    ELSE LET p == IF Len(s) % 2 = 0 THEN s \o <<0, 0>> ELSE s \o <<0>> IN
         [i \in 1..(Len(p) \div 2) |-> <<p[2 * i - 1], p[2 * i]>>]

\* the inner loop of _crc without the carry from val
RECURSIVE CrcRoundsNoCarry(_, _, _)
CrcRoundsNoCarry(crc, val, j) ==
    IF j >= 16 THEN crc
    ELSE LET shifted == (2 * crc) % 65536 IN
         IF crc >= CRC_BITF
         THEN CrcRoundsNoCarry(Xor(shifted, CRC_POLYNOM), (2 * val) % 65536,
                               j + 1)
         ELSE CrcRoundsNoCarry(shifted, (2 * val) % 65536, j + 1)

\* the inner loop of _crc from round j on; crc and val are kept to their low
\* 16 bits, which is all the loop tests and the result keeps
RECURSIVE CrcRounds(_, _, _)
CrcRounds(crc, val, j) ==
    IF j >= 16 THEN crc
    ELSE LET carry == IF val >= CRC_BITF THEN 1 ELSE 0
             shifted == ((2 * crc) % 65536) + carry
         IN IF crc >= CRC_BITF
            THEN CrcRounds(Xor(shifted, CRC_POLYNOM), (2 * val) % 65536, j + 1)
            ELSE CrcRounds(shifted, (2 * val) % 65536, j + 1)

RECURSIVE CrcWords(_, _)
CrcWords(crc, words) ==
    IF words = <<>> THEN crc
    ELSE CrcWords(CrcRounds(crc, ToInt(Head(words)), 0), Tail(words))

\* SIReader._crc
Crc(s) ==
    IF Len(s) < 1 THEN <<0, 0>>
    ELSE LET crc == CrcWords(ToInt(Slice(s, 0, 2)),
                             TwoChars(Slice(s, 2, Len(s)))) % 65536
         IN <<crc \div 256, crc % 256>>

\* SIReader._crc_check
CrcCheck(s, crc) == Crc(s) = crc

\* a _send_command whose checksum covers the parameters only
CommandBytesCrcParams(command, parameters, skipwakeup) ==
    LET command_string == <<command, Len(parameters)>> \o parameters
        cmd == <<STX>> \o command_string \o Crc(parameters) \o <<ETX>>
    IN IF skipwakeup THEN cmd ELSE <<WAKEUP>> \o cmd

\* the bytes _send_command writes
CommandBytes(command, parameters, skipwakeup) ==
    LET command_string == <<command, Len(parameters)>> \o parameters
        cmd == <<STX>> \o command_string \o Crc(command_string) \o <<ETX>>
    IN IF skipwakeup THEN cmd ELSE <<WAKEUP>> \o cmd

\* serial.read(n): the next n bytes, fewer if no more arrive in time, none
\* for a size below one
Take(buf, n) == IF n <= 0 THEN <<>> ELSE SubSeq(buf, 1, Min(n, Len(buf)))
Drop(buf, n) == IF n <= 0 THEN buf ELSE SubSeq(buf, Min(n, Len(buf)) + 1, Len(buf))

\* a _read_command that does not compare the checksum
ReadCommandBytesNoCrc(buf, sc) ==
    LET first == Take(buf, 1)
        b1 == Drop(buf, 1)
        char == IF first = <<WAKEUP>> THEN Take(b1, 1) ELSE first
        b2 == IF first = <<WAKEUP>> THEN Drop(b1, 1) ELSE b1
        none == [exc |-> "none", cmd |-> <<>>, data |-> <<>>, buf |-> b2,
                 sc |-> sc]
    IN
    IF char = <<>> THEN [none EXCEPT !.exc = "Timeout"]
    ELSE IF char = <<NAK>> THEN [none EXCEPT !.exc = "InvalidCommand"]
    ELSE IF char # <<STX>>
    THEN [none EXCEPT !.exc = "FramingError", !.buf = <<>>]
    ELSE LET cmd == Take(b2, 1)
             length == Take(Drop(b2, 1), 1)
             station == Take(Drop(b2, 2), 2)
             b3 == Drop(b2, 4)
         IN
         IF length = <<>>
         THEN [none EXCEPT !.exc = "IndexError", !.buf = b3,
                           !.sc = ToInt(station)]
         ELSE LET n == IF length[1] < 2 THEN 0 ELSE length[1] - 2
                  data == Take(b3, n)
                  etx == Take(Drop(b3, n + 2), 1)
                  got == [none EXCEPT !.buf = Drop(Drop(b3, n), 3),
                                      !.sc = ToInt(station)]
              IN
              IF etx # <<ETX>> THEN [got EXCEPT !.exc = "FramingError"]
              ELSE [got EXCEPT !.cmd = cmd, !.data = data]

\* SIReader._read_command on the bytes of the input buffer
ReadCommandBytes(buf, sc) ==
    LET first == Take(buf, 1)
        b1 == Drop(buf, 1)
        char == IF first = <<WAKEUP>> THEN Take(b1, 1) ELSE first
        b2 == IF first = <<WAKEUP>> THEN Drop(b1, 1) ELSE b1
        none == [exc |-> "none", cmd |-> <<>>, data |-> <<>>, buf |-> b2,
                 sc |-> sc]
    IN
    IF char = <<>> THEN [none EXCEPT !.exc = "Timeout"]
    ELSE IF char = <<NAK>> THEN [none EXCEPT !.exc = "InvalidCommand"]
    ELSE IF char # <<STX>>
    THEN [none EXCEPT !.exc = "FramingError", !.buf = <<>>]
    ELSE LET cmd == Take(b2, 1)
             length == Take(Drop(b2, 1), 1)
             station == Take(Drop(b2, 2), 2)
             b3 == Drop(b2, 4)
         IN
         IF length = <<>>
         THEN [none EXCEPT !.exc = "IndexError", !.buf = b3,
                           !.sc = ToInt(station)]
         ELSE LET n == IF length[1] < 2 THEN 0 ELSE length[1] - 2
                  data == Take(b3, n)
                  crc == Take(Drop(b3, n), 2)
                  etx == Take(Drop(b3, n + 2), 1)
                  got == [none EXCEPT !.buf = Drop(Drop(b3, n), 3),
                                      !.sc = ToInt(station)]
              IN
              IF etx # <<ETX>> THEN [got EXCEPT !.exc = "FramingError"]
              ELSE IF ~CrcCheck(cmd \o length \o station \o data, crc)
              THEN [got EXCEPT !.exc = "ChecksumError"]
              ELSE [got EXCEPT !.cmd = cmd, !.data = data]

(***************************************************************************)
(* SpecWire: the bytes on the line.  pending are the bytes the host wrote, *)
(* inbuf the bytes waiting in its input buffer; the line gives the host's *)
(* own bytes back (a loopback plug) or the station answers.               *)
(***************************************************************************)
WireCmds == {C_SET_MS, C_GET_SYS_VAL, C_GET_SI5}
WireParams == {<<>>, <<77>>, <<83>>, <<0, 128>>, <<0, 42, 77>>, <<1, 2, 3, 4>>}

\* what a station may send: a reply to SET_MS with checksum A1 C2, the same
\* with checksum 0D EB, with a wakeup byte before it, with a wrong last byte,
\* cut short, a NAK, and a byte that starts no frame
WireInputs ==
    {<<2, 240, 3, 0, 42, 77, 161, 194, 3>>,
     <<2, 240, 3, 0, 42, 77, 13, 235, 3>>,
     <<255, 2, 240, 3, 0, 42, 77, 13, 235, 3>>,
     <<2, 240, 3, 0, 42, 77, 13, 235, 4>>,
     <<2, 240>>,
     <<NAK>>,
     <<7, 2, 240>>}

Payloads ==
    {<<>>, <<83>>, <<0>>, <<255>>, <<83, 9>>, <<240, 1, 77>>,
     <<240, 3, 0, 42, 77>>, <<131, 2, 0, 128>>}

InitWire ==
    /\ stSys = <<>>
    /\ stCard = NoFrame
    /\ events = 0
    /\ backup = <<>>
    /\ inbuf = <<>>
    /\ pending = <<>>
    /\ station_code = 0
    /\ proto_config = EmptyDict
    /\ sysval = <<>>
    /\ next_offset = NoOffset
    /\ serial = Connected
    /\ sicard = NoCard
    /\ cardtype = "None"
    /\ op = Idle
    /\ sent = <<>>
    /\ sendcmd = NoSend
    /\ lastPoll = <<NoCard, "None">>
    /\ ret = NoRet

\* _send_command up to the write; one request is followed
WireSend ==
    /\ inbuf = <<>>
    /\ pending = <<>>
    /\ sent = <<>>
    /\ \E command \in WireCmds, parameters \in WireParams,
          skipwakeup \in BOOLEAN :
        LET cmd == CommandBytes(command, parameters, skipwakeup) IN
        /\ pending' = cmd
        /\ sent' = <<[cmd |-> command, par |-> parameters,
                      skipwakeup |-> skipwakeup, bytes |-> cmd]>>
    /\ ret' = NoRet
    /\ UNCHANGED <<inbuf, stationVars, sessionVars, cardVars, op, sendcmd,
                   lastPoll>>

\* the line gives the bytes back
WireEcho ==
    /\ pending # <<>>
    /\ inbuf' = inbuf \o pending
    /\ pending' = <<>>
    /\ UNCHANGED <<stationVars, sessionVars, cardVars, op, sent, sendcmd,
                   lastPoll, ret>>

\* the station takes the request and answers
WireReply ==
    /\ pending # <<>>
    /\ \E bytes \in WireInputs : inbuf' = inbuf \o bytes
    /\ pending' = <<>>
    /\ UNCHANGED <<stationVars, sessionVars, cardVars, op, sent, sendcmd,
                   lastPoll, ret>>

\* _read_command
WireRead ==
    /\ pending = <<>>
    /\ LET r == ReadCommandBytes(inbuf, station_code) IN
        /\ inbuf' = r.buf
        /\ station_code' = r.sc
        /\ ret' = [op |-> "read_command", exc |-> r.exc, cmd |-> r.cmd,
                   data |-> r.data, sc |-> r.sc, frame |-> inbuf]
    /\ UNCHANGED <<pending, stationVars, proto_config, sysval, next_offset,
                   serial, cardVars, op, sent, sendcmd, lastPoll>>

\* _crc and _crc_check on a payload
WireCrc ==
    /\ sent = <<>>
    /\ ret = NoRet
    /\ \E s \in Payloads :
        ret' = [op |-> "crc", arg |-> s, val |-> Crc(s),
                ok |-> CrcCheck(s, Crc(s))]
    /\ UNCHANGED <<inbuf, pending, stationVars, sessionVars, cardVars, op,
                   sent, sendcmd, lastPoll>>

NextWire ==
    \/ WireSend
    \/ WireEcho
    \/ WireReply
    \/ WireRead
    \/ WireCrc

SpecWire == InitWire /\ [][NextWire]_vars

(***************************************************************************)
(* SIReader._decode_time with its reference time.  An instant is a number *)
(* of seconds; day 0 is a Monday, so that weekday() of an instant is its  *)
(* day modulo 7.  A reference time is [day, secs, us]: the day, the       *)
(* seconds since midnight and whether it has a fraction of a second.      *)
(***************************************************************************)
NoPtd == -1
HalfDay == 43200
DaySeconds == 86400

\* a _decode_time that never goes a week back
DecodeTimeAtSameWeek(raw_time, raw_ptd, reftime) ==
    IF raw_time = TIME_RESET THEN NoTime
    ELSE LET punchtime == ToInt(raw_time) + HalfDay * (raw_ptd % 2)
             dow == (((raw_ptd \div 2) % 8) - 1) % 7
             day == reftime.day - (((reftime.day % 7) - dow) % 7)
         IN day * DaySeconds + punchtime

\* SIReader._decode_time(raw_time, raw_ptd, reftime)
DecodeTimeAt(raw_time, raw_ptd, reftime) ==
    IF raw_time = TIME_RESET THEN NoTime
    ELSE IF raw_ptd # NoPtd
    THEN LET punchtime == ToInt(raw_time) + HalfDay * (raw_ptd % 2)
             dow == (((raw_ptd \div 2) % 8) - 1) % 7
             weekday == reftime.day % 7
             day == IF weekday = dow /\ punchtime > reftime.secs
                    THEN reftime.day - 7
                    ELSE reftime.day - ((weekday - dow) % 7)
         IN day * DaySeconds + punchtime
    ELSE LET punchtime == ToInt(raw_time)
             ref_day == reftime.day * DaySeconds
             \* punchtime < ref_hour - d, ref_hour with its fraction
             Before(d) == \/ punchtime < reftime.secs - d
                          \/ punchtime = reftime.secs - d /\ reftime.us
         IN IF reftime.secs < HalfDay
            THEN IF Before(0) THEN ref_day + punchtime
                 ELSE ref_day - HalfDay + punchtime
            ELSE IF Before(HalfDay) THEN ref_day + HalfDay + punchtime
                 ELSE ref_day + punchtime

(***************************************************************************)
(* SIReader._decode_carddata: the punches of a card image.  A punch is    *)
(* [at, cn, time]: the offset its record was read from, the station code  *)
(* and the decoded time; reads are the offsets of all the records read.   *)
(***************************************************************************)
\* SIConstants.CARD, the entries the punch loop uses, for the families SI5
\* and SI8; -1 stands for None
CARD(card_type) ==
    IF card_type = "SI5"
    THEN [CTD |-> -1, RC |-> 23, P1 |-> 32, PL |-> 3, PM |-> 30, CN |-> 0,
          PTD |-> -1, PTH |-> 1, PTL |-> 2]
    ELSE [CTD |-> 8, RC |-> 22, P1 |-> 136, PL |-> 4, PM |-> 50, PTD |-> 0,
          CN |-> 1, PTH |-> 2, PTL |-> 3]

\* SIReader._decode_station_code
DecodeStationCode(raw_code, raw_ptd) ==
    IF raw_ptd # NoPtd THEN 256 * (raw_ptd \div 64) + raw_code ELSE raw_code

\* a punch count that takes the counter of an SI5 as it is
PunchCountPlain(data, card_type) ==
    Min(Slice(data, CARD(card_type).RC, CARD(card_type).RC + 1)[1],
        CARD(card_type).PM)

\* punch_count of _decode_carddata; the counter byte is there
PunchCount(data, card_type) ==
    LET rc == Slice(data, CARD(card_type).RC, CARD(card_type).RC + 1)[1]
    IN Min(IF card_type = "SI5" THEN rc - 1 ELSE rc, CARD(card_type).PM)

\* a punch loop that skips no byte
PunchAtNoSkip(card_type, i) == i

\* where the punch loop reads the record when it has come to offset i
PunchAt(card_type, i) ==
    IF card_type = "SI5" /\ i % 16 = 0 THEN i + 1 ELSE i

\* the punch loop from punch p at offset i on; time_day is what the header
\* fields left in the variable of that name
RECURSIVE PunchLoop(_, _, _, _, _, _, _)
PunchLoop(data, card_type, time_day, reftime, p, i, acc) ==
    IF p >= PunchCount(data, card_type) THEN acc
    ELSE LET card == CARD(card_type)
             at == PunchAt(card_type, i)
         IN
         IF at + card.CN >= Len(data)
              \/ (card.PTD # -1 /\ at + card.PTD >= Len(data))
         THEN [acc EXCEPT !.exc = "IndexError"]
         ELSE LET ptd == IF card.PTD # -1 THEN data[at + card.PTD + 1]
                         ELSE NoPtd
                  cn == DecodeStationCode(data[at + card.CN + 1], time_day)
                  pt == Slice(data, at + card.PTH, at + card.PTL + 1)
                  time == DecodeTimeAt(pt, ptd, reftime)
              IN PunchLoop(data, card_type, time_day, reftime, p + 1,
                           at + card.PL,
                           [acc EXCEPT
                              !.reads = Append(@, at),
                              !.punches =
                                  IF time # NoTime
                                  THEN Append(@, [at |-> at, cn |-> cn,
                                                  time |-> time])
                                  ELSE @])

\* _decode_carddata, its punches
DecodeCarddata(data, card_type, reftime) ==
    PunchLoop(data, card_type,
              IF CARD(card_type).CTD # -1
              THEN data[CARD(card_type).CTD + 1] ELSE NoPtd,
              reftime, 0, CARD(card_type).P1,
              [exc |-> "none", punches |-> <<>>, reads |-> <<>>])

\* the offset of punch record j (from 0) on a card: an SI5 has five records
\* of three bytes after the first byte of each block of sixteen, an SI8
\* records of four bytes from offset 136
RecordOffset(card_type, j) ==
    IF card_type = "SI5" THEN 33 + 16 * (j \div 5) + 3 * (j % 5)
    ELSE 136 + 4 * j

\* the image of a card with the given punch counter and thirty punch
\* records, record j with station 31 + j (on an SI8 with the two high bits
\* j mod 4 in its PTD) and time 256 + j, or without time (EE EE) for j in
\* resets; the first byte of each block of an SI5 is EE; ctd is the day
\* byte of the check time of an SI8
CardImage(card_type, counter, resets, ctd) ==
    SubSeq(
    [x \in 1..(IF card_type = "SI5" THEN 128 ELSE 256) |->
        LET o == x - 1
            pl == IF card_type = "SI5" THEN 3 ELSE 4
            js == {j \in 0..29 : /\ o >= RecordOffset(card_type, j)
                                 /\ o < RecordOffset(card_type, j) + pl}
        IN
        IF o = (IF card_type = "SI5" THEN 23 ELSE 22) THEN counter
        ELSE IF card_type = "SI8" /\ o = 8 THEN ctd
        ELSE IF js # {}
        THEN LET j == CHOOSE j \in js : TRUE
                 part == o - RecordOffset(card_type, j) + (4 - pl)
             IN CASE part = 0 -> 2 + 64 * (j % 4)
                  [] part = 1 -> 31 + j
                  [] part = 2 -> IF j \in resets THEN 238 ELSE 1
                  [] OTHER -> IF j \in resets THEN 238 ELSE j
        ELSE IF card_type = "SI5" /\ o >= 32 /\ o % 16 = 0 THEN 238
        ELSE 0],
    1, IF card_type = "SI5" THEN 128 ELSE 256)

(***************************************************************************)
(* SpecDecode: the decoders of card numbers, punch times and card images  *)
(* on their own.                                                           *)
(***************************************************************************)
RawCardNumbers ==
    {<<b0, b1, b2, b3>> : b0 \in {0, 1}, b1 \in {0, 1, 2, 4, 5, 7, 8, 15},
                          b2 \in {0, 32, 161, 255},
                          b3 \in {0, 31, 32, 91, 255}}

RawTimes == {<<0, 0>>, <<0, 1>>, <<28, 32>>, <<140, 160>>, <<140, 161>>,
             <<168, 191>>, TIME_RESET}
RawPtds == {NoPtd, 0, 3, 4, 5, 14, 197}
RefTimes == [day : {14, 15, 20}, secs : {0, 7200, 36000, 43200, 50400, 86399},
             us : BOOLEAN]

InitDecode ==
    /\ stSys = <<>>
    /\ stCard = NoFrame
    /\ events = 0
    /\ backup = <<>>
    /\ inbuf = <<>>
    /\ pending = <<>>
    /\ station_code = 0
    /\ proto_config = EmptyDict
    /\ sysval = <<>>
    /\ next_offset = NoOffset
    /\ serial = Connected
    /\ sicard = NoCard
    /\ cardtype = "None"
    /\ op = Idle
    /\ sent = <<>>
    /\ sendcmd = NoSend
    /\ lastPoll = <<NoCard, "None">>
    /\ ret = NoRet

CallDecodeCardnr ==
    /\ ret = NoRet
    /\ \E number \in RawCardNumbers :
        ret' = [op |-> "decode_cardnr", arg |-> number,
                exc |-> DecodeCardnr(number).exc,
                val |-> DecodeCardnr(number).val]
    /\ UNCHANGED <<inbuf, pending, stationVars, sessionVars, cardVars, op,
                   sent, sendcmd, lastPoll>>

CallDecodeTime ==
    /\ ret = NoRet
    /\ \E raw_time \in RawTimes, raw_ptd \in RawPtds, reftime \in RefTimes :
        ret' = [op |-> "decode_time", raw |-> raw_time, ptd |-> raw_ptd,
                ref |-> reftime, exc |-> "none",
                val |-> DecodeTimeAt(raw_time, raw_ptd, reftime)]
    /\ UNCHANGED <<inbuf, pending, stationVars, sessionVars, cardVars, op,
                   sent, sendcmd, lastPoll>>

CallDecodeCarddata ==
    /\ ret = NoRet
    /\ \E card_type \in {"SI5", "SI8"},
          counter \in {0, 1, 2, 3, 6, 7, 12, 30, 31, 32, 37, 255},
          resets \in {{}, {0}, {1, 2}, {4, 5, 29}, {0, 2, 3, 10}, 0..29},
          ctd \in {0, 192} :
        LET data == CardImage(card_type, counter, resets, ctd)
            d == DecodeCarddata(data, card_type,
                                [day |-> 15, secs |-> 36000, us |-> FALSE])
        IN ret' = [op |-> "decode_carddata",
                   arg |-> [data |-> data, card_type |-> card_type],
                   exc |-> d.exc,
                   val |-> [punches |-> d.punches, reads |-> d.reads]]
    /\ UNCHANGED <<inbuf, pending, stationVars, sessionVars, cardVars, op,
                   sent, sendcmd, lastPoll>>

NextDecode ==
    \/ CallDecodeCardnr
    \/ CallDecodeTime
    \/ CallDecodeCarddata

SpecDecode == InitDecode /\ [][NextDecode]_vars

(***************************************************************************)
(* SIReader.set_station_code, and SpecStation: a connected session that   *)
(* sets the code and the feedback of its station and asks for the code.   *)
(***************************************************************************)
\* x | 0b00111111 for a byte x
Or63(x) == (x - (x % 64)) + 63

\* code_low and code_high of set_station_code
StationCodeBytes(code) == <<code % 256, Or63(code \div 4)>>

CodeArgs == {0, 1, 300, 1023, 1024}

\* op.log keeps the argument and the feedback byte the station has at the call
SetStationCode ==
    /\ op.name = "idle"
    /\ sent' = <<>>
    /\ \E code \in CodeArgs :
        IF code < 1 \/ code > 1023
        THEN Fail("set_station_code", "InvalidArgument")
        ELSE /\ op' = [Idle EXCEPT
                         !.name = "set_station_code",
                         !.todo = SendCommand(C_SET_SYS_VAL,
                                              <<O_STATION_CODE>>
                                                  \o StationCodeBytes(code),
                                              "drop"),
                         !.fin = UpdateProtoConfig,
                         !.log = <<[code |-> code,
                                    feedback |-> stSys[O_FEEDBACK + 1]]>>]
             /\ ret' = NoRet
    /\ UNCHANGED <<inbuf, pending, stationVars, sessionVars, cardVars, sendcmd,
                   lastPoll>>

NextStation ==
    \/ SetStationCode
    \/ SysvalCode
    \/ SetFeedback
    \/ HostSend
    \/ HostRead(FALSE)
    \/ StationReply

SpecStation == Init /\ [][NextStation]_vars

(***************************************************************************)
(* SIReader.set_baud_rate, and SpecArgs: a connected session whose        *)
(* setters are called with valid and with invalid arguments.              *)
(***************************************************************************)
\* a set_baud_rate that takes every rate
SupportedBaudRateAny(baud_rate) == baud_rate > 0

\* baud_rate in (4800, 38400)
SupportedBaudRate(baud_rate) == baud_rate \in {B4800, B38400}

BaudArgs == {4800, 9600, 38400}

\* op.arg is the rate, which the host takes over when the reply has come
SetBaudRate ==
    /\ op.name = "idle"
    /\ sent' = <<>>
    /\ \E baud_rate \in BaudArgs :
        IF ~SupportedBaudRate(baud_rate)
        THEN Fail("set_baud_rate", "InvalidArgument")
        ELSE /\ op' = [Idle EXCEPT
                         !.name = "set_baud_rate",
                         !.todo = SendCommand(C_SET_BAUD,
                                              IF baud_rate = B4800 THEN <<0>>
                                              ELSE <<1>>,
                                              "baud"),
                         !.arg = baud_rate]
             /\ ret' = NoRet
    /\ UNCHANGED <<inbuf, pending, stationVars, sessionVars, cardVars, sendcmd,
                   lastPoll>>

\* SIReader.flush: what has arrived and was not read is thrown away
Flush ==
    /\ op.name = "idle"
    /\ inbuf # <<>>
    /\ inbuf' = <<>>
    /\ sent' = <<>>
    /\ ret' = [op |-> "flush", exc |-> "none", val |-> <<>>]
    /\ UNCHANGED <<pending, stationVars, sessionVars, cardVars, op, sendcmd,
                   lastPoll>>

\* SpecProto: a connected session that sets the protocol flags
NextProto ==
    \/ Flush
    \/ SetExtendedProtocol
    \/ SetAutosend
    \/ HostSend
    \/ HostRead(FALSE)
    \/ StationReply

SpecProto == Init /\ [][NextProto]_vars

NextArgs ==
    \/ SetOperatingMode
    \/ SetStationCode
    \/ SetBaudRate
    \/ HostSend
    \/ HostRead(FALSE)
    \/ StationReply

SpecArgs == Init /\ [][NextArgs]_vars

(***************************************************************************)
(* C2: poll_sicard returns true exactly when the card state (sicard,       *)
(* cardtype) differs from the one the previous poll_sicard call left,      *)
(* whatever consumed the insert or remove frame in between.                *)
(***************************************************************************)
C2_PollReportsChange ==
    (ret.op = "poll_sicard" /\ ret.exc = "none")
        => (ret.val = (ret.since # <<sicard, cardtype>>))

(***************************************************************************)
(* C9: _send_command writes nothing and leaves the input buffer alone when *)
(* the buffer holds anything (BufferNotEmpty); otherwise it writes one     *)
(* request and reads one frame, never more.                                *)
(***************************************************************************)
C9_TurnTaking ==
    /\ sendcmd.writes <= 1
    /\ sendcmd.reads <= 1
    /\ (sendcmd.cmd # 0 /\ sendcmd.bufBefore # <<>>)
        => /\ sendcmd.exc = "BufferNotEmpty"
           /\ sendcmd.done
           /\ sendcmd.writes = 0
           /\ sendcmd.reads = 0
           /\ sendcmd.bufAfter = sendcmd.bufBefore
    /\ (sendcmd.cmd # 0 /\ sendcmd.bufBefore = <<>>)
        => /\ sendcmd.writes = 1
           /\ sendcmd.exc # "BufferNotEmpty"
           /\ sendcmd.done => sendcmd.reads = 1
           /\ (sendcmd.done /\ sendcmd.exc = "none") => sendcmd.taken = 1
    /\ Len(sent) > 0 => sendcmd.cmd = sent[Len(sent)].cmd \/ sendcmd.writes = 0

C9_Witness ==
    /\ sendcmd.exc = "BufferNotEmpty"
    /\ sendcmd.bufBefore # <<>>
    /\ inbuf = sendcmd.bufBefore
    /\ Len(sent) = 1
    /\ ret.op = "read_sicard"

(***************************************************************************)
(* C10: poll_sicard and read_sicard fail with WrongMode, before sending    *)
(* anything, unless the cached proto_config has ext_proto true and mode    *)
(* Readout.                                                                *)
(***************************************************************************)
C10_ModePreconditions ==
    (/\ ret.op \in {"poll_sicard", "read_sicard"}
     /\ ~(/\ "ext_proto" \in DOMAIN proto_config
          /\ proto_config.ext_proto
          /\ proto_config.mode = M_READOUT))
        => (ret.exc = "WrongMode" /\ sent = <<>>)

(***************************************************************************)
(* C8: when an operation that writes the station configuration has        *)
(* returned, the session's cached views agree with the station: a cached  *)
(* SYSVAL image (if one is held; otherwise the getters fetch it) is the   *)
(* station's block and proto_config is the station's protocol             *)
(* configuration.                                                         *)
(***************************************************************************)
C8_SettersRefetch ==
    (/\ ret.op \in {"set_extended_protocol", "set_operating_mode",
                    "set_feedback", "set_si6_192"}
     /\ ret.exc = "none")
        => /\ Len(sysval) >= SysvalLen => sysval = <<0>> \o stSys
           /\ proto_config = ParseProtoConfig(<<0>> \o stSys).cfg

(***************************************************************************)
(* C3: a poll_punch call that ends with the Timeout of its loop returns,  *)
(* for every frame it read in arrival order, first one recovered punch    *)
(* per 8-byte slot from the held _next_offset up to the frame's offset    *)
(* (none when no _next_offset was held), then the frame's own punch; it   *)
(* has sent exactly one GET_BACKUP(offset, 8) per recovered slot in       *)
(* increasing order, and _next_offset is the frame's offset plus 8 after  *)
(* each C_TRANS_REC frame.                                                *)
(***************************************************************************)
C3_GapRecovery ==
    (ret.op = "poll_punch" /\ ret.exc = "none")
        => LET log == ret.log
               Slots(f) == IF f.cmd = C_TRANS_REC /\ f.held # NoOffset
                              /\ f.held < f.off
                           THEN (f.off - f.held + REC_LEN - 1) \div REC_LEN
                           ELSE 0
               RECURSIVE Expected(_)
               Expected(k) ==
                   IF k = 0 THEN <<>>
                   ELSE Expected(k - 1)
                        \o [j \in 1..Slots(log[k]) |->
                               <<"rec", log[k].held + REC_LEN * (j - 1)>>]
                        \o << <<IF log[k].cmd = C_TRANS_REC THEN "cur"
                                ELSE "other", log[k].off>> >>
               recs == SelectSeq(Expected(Len(log)), LAMBDA x : x[1] = "rec")
           IN
            /\ [i \in DOMAIN ret.val |-> <<ret.val[i].src, ret.val[i].off>>]
                   = Expected(Len(log))
            /\ sent = [i \in DOMAIN recs |->
                         [cmd |-> C_GET_BACKUP,
                          par |-> ToStr(recs[i][2], 3) \o <<REC_LEN>>]]
            /\ \A k \in DOMAIN log :
                   log[k].cmd = C_TRANS_REC
                       => (IF k < Len(log) THEN log[k + 1].held
                           ELSE next_offset) = log[k].off + REC_LEN

C3_Witness ==
    /\ ret.op = "poll_punch"
    /\ ret.exc = "none"
    /\ Len(ret.val) = 3
    /\ ret.val[1].src = "rec"
    /\ ret.val[2].src = "rec"
    /\ ret.val[3].src = "cur"
    /\ ret.val[1].off + REC_LEN = ret.val[2].off
    /\ Len(sent) = 2
    /\ next_offset = ret.val[3].off + REC_LEN

(***************************************************************************)
(* C4: a poll_punch call that has read a frame whose command is not       *)
(* C_TRANS_REC fails with UnexpectedCommand and returns no punch made     *)
(* from such a frame.                                                     *)
(***************************************************************************)
C4_UnexpectedCommand ==
    (/\ ret.op = "poll_punch"
     /\ \E k \in DOMAIN ret.log : ret.log[k].cmd # C_TRANS_REC)
        => /\ ret.exc = "UnexpectedCommand"
           /\ \A i \in DOMAIN ret.val : ret.val[i].src # "other"

(***************************************************************************)
(* C5: a read_backup call that got its replies has requested the memory   *)
(* from 0x100 in consecutive ranges of min(0x80, end_ptr - read_ptr)       *)
(* bytes up to end_ptr, fetched exactly end_ptr - 0x100 bytes and returns *)
(* (end_ptr - 0x100) / record_size records in memory order, the record    *)
(* size being 8 in the extended and 6 in the legacy protocol; none and no *)
(* request for end_ptr <= 0x100.                                          *)
(***************************************************************************)
C5_BackupPaging ==
    (ret.op = "read_backup" /\ "end" \in DOMAIN ret)
        => LET size == IF ret.end > BackupBase THEN ret.end - BackupBase
                       ELSE 0
               step == IF proto_config.ext_proto THEN BUX_SIZE ELSE BUL_SIZE
               reqs == SubSeq(sent, 3, Len(sent))
           IN
            /\ Len(reqs) = (size + PageLen - 1) \div PageLen
            /\ \A k \in DOMAIN reqs :
                /\ reqs[k].cmd = C_GET_BACKUP
                /\ ToInt(SubSeq(reqs[k].par, 1, 3))
                       = BackupBase + PageLen * (k - 1)
                /\ reqs[k].par[4]
                       = IF size - PageLen * (k - 1) < PageLen
                         THEN size - PageLen * (k - 1) ELSE PageLen
            /\ ret.bytes = size
            /\ ret.exc = "none"
            /\ Len(ret.val) = size \div step
            /\ \A k \in DOMAIN ret.val : ret.val[k].cn = 40 + k

(***************************************************************************)
(* C6: without noconnect every port is probed first at the initial speed  *)
(* (38400, or 4800 with lowspeed); a failed first probe at 38400 is       *)
(* followed by exactly one probe at 4800 and a failed first probe at 4800 *)
(* by none; when the second probe fails too, by an error or by a timeout, *)
(* opening fails with NoReader.                                           *)
(***************************************************************************)
C6_BaudFallback ==
    ret.op = "open"
        => LET log == ret.log IN
            /\ \A k \in DOMAIN log :
                /\ log[k].n = 1
                    => /\ log[k].baud = IF ret.arg.lowspeed THEN B4800
                                        ELSE B38400
                       /\ (log[k].exc # "none" /\ log[k].baud = B38400)
                            => /\ k < Len(log)
                               /\ log[k + 1].n = 2
                       /\ (log[k].exc # "none" /\ log[k].baud = B4800)
                            => (k = Len(log) \/ log[k + 1].port # log[k].port)
                /\ log[k].n = 2
                    => /\ k > 1
                       /\ log[k - 1].n = 1
                       /\ log[k - 1].exc # "none"
                       /\ log[k - 1].port = log[k].port
                       /\ log[k].baud = B4800
            /\ (log # <<>> /\ log[Len(log)].n = 2
                    /\ log[Len(log)].exc # "none")
                => ret.exc = "NoReader"

(***************************************************************************)
(* C7: a port that was opened is closed again when opening is reported to *)
(* have failed and before the next candidate of a scan is tried, and      *)
(* disconnect closes the port.                                            *)
(***************************************************************************)
C7_PortClosed ==
    /\ (ret.op = "open" /\ ret.exc # "none") => serial.open = {}
    /\ op.name = "open" => serial.open \subseteq {serial.port}
    /\ ret.op = "disconnect" => serial.port \notin serial.open

(***************************************************************************)
(* C11: read_sicard issues the read sequence of the detected family and   *)
(* concatenates the blocks in arrival order.                              *)
(***************************************************************************)
\* the requests of a complete read of a card of family t
RECURSIVE BlockRequests(_, _)
BlockRequests(b, bc) ==
    IF b >= bc THEN <<>>
    ELSE <<[cmd |-> C_GET_SI9, par |-> <<b>>]>> \o BlockRequests(b + 1, bc)

ReadRequests(t) ==
    CASE t = "SI5" -> <<[cmd |-> C_GET_SI5, par |-> <<>>]>>
      [] t = "SI6" -> <<[cmd |-> C_GET_SI6, par |-> <<8>>]>>
      [] t = "SI10" -> <<[cmd |-> C_GET_SI9, par |-> <<8>>]>>
      [] OTHER -> BlockRequests(0, CardBC(t))

\* the blocks of the frames fr in their order, without the block number
\* (SI5 blocks carry none)
RECURSIVE Blocks(_, _)
Blocks(t, fr) ==
    IF fr = <<>> THEN <<>>
    ELSE (IF t = "SI5" THEN Head(fr) ELSE Tail(Head(fr))) \o Blocks(t, Tail(fr))

\* C11 as stated: SI5 one GET_SI5 and one frame; SI6 one GET_SI6 0x08 and
\* three frames; SI8/SI9/pCard GET_SI9 b for b = 0..BC-1, one frame each;
\* SI10 one GET_SI9 0x08 and four frames; the result is the blocks in arrival
\* order; without a card the call fails and sends nothing
C11_ReadSequence ==
    ret.op = "read_sicard"
        => /\ ret.exc = "none"
                => /\ sent = ReadRequests(cardtype)
                   /\ Len(ret.log) = (CASE cardtype = "SI5" -> 1
                                         [] cardtype = "SI6" -> 3
                                         [] cardtype = "SI10" -> 4
                                         [] OTHER -> CardBC(cardtype))
                   /\ ret.val = Blocks(cardtype, ret.log)
           /\ ret.exc = "NoCard" => sent = <<>>
           /\ (cardtype = "None" /\ ret.exc # "CardChanged")
                => (ret.exc # "none" /\ sent = <<>>)

\* C11 amended: as above, with five frames for SI10 (the reply to GET_SI9
\* 0x08 and four more)
C11_ReadSequenceFive ==
    ret.op = "read_sicard"
        => /\ ret.exc = "none"
                => /\ sent = ReadRequests(cardtype)
                   /\ Len(ret.log) = (CASE cardtype = "SI5" -> 1
                                         [] cardtype = "SI6" -> 3
                                         [] cardtype = "SI10" -> 5
                                         [] OTHER -> CardBC(cardtype))
                   /\ ret.val = Blocks(cardtype, ret.log)
           /\ ret.exc = "NoCard" => sent = <<>>
           /\ (cardtype = "None" /\ ret.exc # "CardChanged")
                => (ret.exc # "none" /\ sent = <<>>)

C11_Witness ==
    /\ ret.op = "read_sicard"
    /\ ret.exc = "none"
    /\ cardtype = "SI10"
    /\ Len(ret.log) = 5
    /\ ret.val = <<193, 100, 193, 104, 193, 105, 193, 106, 193, 107>>

(***************************************************************************)
(* C12: frame symmetry.                                                   *)
(***************************************************************************)
\* C12 as stated: _read_command on the bytes _send_command writes (without
\* wakeup) for a command and parameters returns that command and the
\* parameters as data
C12_FrameSymmetry ==
    ret.op = "read_command"
        => \A c \in WireCmds, p \in WireParams :
            ret.frame = CommandBytes(c, p, TRUE)
                => /\ ret.exc = "none"
                   /\ ret.cmd = <<c>>
                   /\ ret.data = p

\* C12 amended: _read_command on the bytes _send_command writes (without
\* wakeup) for a command and at least two parameter bytes returns that
\* command, takes the first two parameter bytes as the station code and
\* returns the other parameter bytes as data; with fewer than two parameter
\* bytes it finds no ETX
C12_RequestAsResponse ==
    ret.op = "read_command"
        => \A c \in WireCmds, p \in WireParams :
            ret.frame = CommandBytes(c, p, TRUE)
                => IF Len(p) >= 2
                   THEN /\ ret.exc = "none"
                        /\ ret.cmd = <<c>>
                        /\ ret.sc = 256 * p[1] + p[2]
                        /\ station_code = ret.sc
                        /\ ret.data = SubSeq(p, 3, Len(p))
                   ELSE ret.exc = "FramingError"

C12_Witness ==
    /\ ret.op = "read_command"
    /\ ret.frame = CommandBytes(C_GET_SYS_VAL, <<0, 42, 77>>, TRUE)
    /\ ret.exc = "none"
    /\ ret.data = <<77>>
    /\ ret.sc = 42

(***************************************************************************)
(* C13: the bytes of the request SET_MS 'M'.                              *)
(***************************************************************************)
\* C13 as stated: SET_MS with parameter 4D is written as FF 02 F0 01 4D 4D 26
\* 03, and without the leading FF when the wakeup is suppressed
C13_ProbeBytes ==
    \A k \in DOMAIN sent :
        ("bytes" \in DOMAIN sent[k] /\ sent[k].cmd = C_SET_MS
            /\ sent[k].par = <<P_MS_DIRECT>>)
            => sent[k].bytes = IF sent[k].skipwakeup
                               THEN <<2, 240, 1, 77, 77, 38, 3>>
                               ELSE <<255, 2, 240, 1, 77, 77, 38, 3>>

\* C13 amended: SET_MS with parameter 4D is written as FF 02 F0 01 4D 6D 0A
\* 03, and without the leading FF when the wakeup is suppressed
C13_ProbeBytesCrc ==
    \A k \in DOMAIN sent :
        ("bytes" \in DOMAIN sent[k] /\ sent[k].cmd = C_SET_MS
            /\ sent[k].par = <<P_MS_DIRECT>>)
            => sent[k].bytes = IF sent[k].skipwakeup
                               THEN <<2, 240, 1, 77, 109, 10, 3>>
                               ELSE <<255, 2, 240, 1, 77, 109, 10, 3>>

C13_Witness ==
    /\ sent # <<>>
    /\ "bytes" \in DOMAIN sent[1]
    /\ sent[1].cmd = C_SET_MS
    /\ sent[1].par = <<P_MS_DIRECT>>
    /\ ~sent[1].skipwakeup
    /\ pending = <<255, 2, 240, 1, 77, 109, 10, 3>>

(***************************************************************************)
(* C14: the reply to SET_MS.                                              *)
(***************************************************************************)
\* C14 as stated: _read_command on 02 F0 03 00 2A 4D A1 C2 03 returns command
\* F0 and data 4D, and the station code is 002A
C14_ReplyParsed ==
    (ret.op = "read_command"
        /\ ret.frame = <<2, 240, 3, 0, 42, 77, 161, 194, 3>>)
        => /\ ret.exc = "none"
           /\ ret.cmd = <<C_SET_MS>>
           /\ ret.data = <<77>>
           /\ ret.sc = 42

\* C14 amended: _read_command on 02 F0 03 00 2A 4D 0D EB 03 returns command
\* F0 and data 4D, and the station code is 002A; on 02 F0 03 00 2A 4D A1 C2
\* 03 it sets the station code to 002A and fails with ChecksumError
C14_ReplyChecked ==
    ret.op = "read_command"
        => /\ ret.frame = <<2, 240, 3, 0, 42, 77, 13, 235, 3>>
                => /\ ret.exc = "none"
                   /\ ret.cmd = <<C_SET_MS>>
                   /\ ret.data = <<77>>
                   /\ ret.sc = 42
                   /\ station_code = 42
           /\ ret.frame = <<2, 240, 3, 0, 42, 77, 161, 194, 3>>
                => /\ ret.exc = "ChecksumError"
                   /\ ret.sc = 42
                   /\ station_code = 42

C14_Witness ==
    /\ ret.op = "read_command"
    /\ ret.frame = <<2, 240, 3, 0, 42, 77, 13, 235, 3>>
    /\ ret.exc = "none"
    /\ ret.data = <<77>>
    /\ station_code = 42

(***************************************************************************)
(* C15: the CRC of a payload of length 0 or 1 is 00 00, and _crc_check    *)
(* accepts the CRC of every payload.                                      *)
(***************************************************************************)
C15_ShortCrc ==
    ret.op = "crc"
        => /\ Len(ret.arg) <= 1 => ret.val = <<0, 0>>
           /\ ret.ok

(***************************************************************************)
(* C16: _decode_cardnr on b0 b1 b2 b3 fails with UnknownCardSeries if b0  *)
(* is not 0; otherwise, with n the value of b1 b2 b3, for n < 500000 it   *)
(* returns the value of b2 b3 when b1 < 2 and b1 * 100000 + (b2 b3) when  *)
(* b1 >= 2, and for n >= 500000 it returns n.                             *)
(***************************************************************************)
C16_DecodeCardNumber ==
    ret.op = "decode_cardnr"
        => LET b == ret.arg
               n == 65536 * b[2] + 256 * b[3] + b[4]
               low == 256 * b[3] + b[4]
           IN IF b[1] # 0 THEN ret.exc = "UnknownCardSeries"
              ELSE /\ ret.exc = "none"
                   /\ ret.val = IF n >= 500000 THEN n
                                ELSE IF b[2] < 2 THEN low
                                ELSE b[2] * 100000 + low

C16_Witness ==
    /\ ret.op = "decode_cardnr"
    /\ ret.arg = <<0, 1, 32, 91>>
    /\ ret.exc = "none"
    /\ ret.val = 8283

(***************************************************************************)
(* C17: for every raw id with leading 00, _decode_cardnr returns a number *)
(* below 500000 when the low three bytes are below 500000 and a number of *)
(* at least 500000 otherwise.                                             *)
(***************************************************************************)
C17_RangesDisjoint ==
    (ret.op = "decode_cardnr" /\ ret.arg[1] = 0)
        => LET n == 65536 * ret.arg[2] + 256 * ret.arg[3] + ret.arg[4] IN
           /\ ret.exc = "none"
           /\ n < 500000 <=> ret.val < 500000

(***************************************************************************)
(* C18: without PTD byte and for a punch time p in 0..43199, _decode_time *)
(* returns the latest instant t <= ref with t = p modulo 12 hours, so     *)
(* that t <= ref and ref - t < 12 h.                                      *)
(***************************************************************************)
C18_HalfDayBeforeRef ==
    (ret.op = "decode_time" /\ ret.ptd = NoPtd /\ ret.raw # TIME_RESET)
        => LET ref == ret.ref.day * DaySeconds + ret.ref.secs
               p == 256 * ret.raw[1] + ret.raw[2]
           IN /\ ret.val % HalfDay = p
              /\ ret.val <= ref
              /\ ref - ret.val < HalfDay

(***************************************************************************)
(* C19: with a PTD byte and for a punch time p in 0..43199, _decode_time  *)
(* returns midnight(D) + p + 12 h * (ptd & 1) for the latest day D whose  *)
(* weekday is (((ptd >> 1) & 7) - 1) mod 7 and for which the result is    *)
(* not later than ref; the result is less than 7 days before ref.         *)
(***************************************************************************)
C19_WeekdayBeforeRef ==
    (ret.op = "decode_time" /\ ret.ptd # NoPtd /\ ret.raw # TIME_RESET)
        => LET ref == ret.ref.day * DaySeconds + ret.ref.secs
               p == 256 * ret.raw[1] + ret.raw[2]
               D == ret.val \div DaySeconds
           IN /\ ret.val = D * DaySeconds + p + HalfDay * (ret.ptd % 2)
              /\ D % 7 = (((ret.ptd \div 2) % 8) - 1) % 7
              /\ ret.val <= ref
              /\ ret.val + 7 * DaySeconds > ref
              /\ ref - ret.val < 7 * DaySeconds

C19_Witness ==
    /\ ret.op = "decode_time"
    /\ ret.raw = <<28, 32>>
    /\ ret.ptd = 5
    /\ ret.ref = [day |-> 15, secs |-> 36000, us |-> FALSE]
    /\ ret.val = 8 * DaySeconds + 50400

(***************************************************************************)
(* C20: set_station_code(code) for a code in 1..1023 writes code & 0xFF   *)
(* to the station code byte and to the feedback byte a byte that has the  *)
(* bits 9..8 of the code in its bits 7..6 and the bits 5..0 the feedback  *)
(* byte had on the station.                                               *)
(***************************************************************************)
C20_StationCodeWrite ==
    (ret.op = "set_station_code" /\ ret.exc = "none")
        => LET code == ret.log[1].code
               before == ret.log[1].feedback
           IN /\ code \in 1..1023
              /\ stSys[O_STATION_CODE + 1] = code % 256
              /\ stSys[O_FEEDBACK + 1] \div 64 = code \div 256
              /\ stSys[O_FEEDBACK + 1] % 64 = before % 64

\* C21: invalid arguments are rejected before any I/O: set_station_code with
\* a code outside 1..1023, set_operating_mode with a mode outside the
\* supported ones and set_baud_rate with a rate other than 4800 or 38400 fail
\* with InvalidArgument, having written nothing to the port and changed
\* neither proto_config nor the host baud rate nor any other cached state; a
\* call that goes on to write has a valid argument.
C21_ValidProceeds ==
    /\ op.name = "set_baud_rate" => op.arg \in {4800, 38400}
    /\ op.name = "set_station_code" => op.log[1].code \in 1..1023
    /\ \A k \in 1..Len(sent) :
        /\ (sent[k].cmd = C_SET_SYS_VAL /\ sent[k].par[1] = O_MODE)
              => sent[k].par[2] \in {2, 3, 4, 5, 7, 10}
        /\ sent[k].cmd = C_SET_BAUD => sent[k].par \in {<<0>>, <<1>>}

C21_RejectStep ==
    (/\ ret' # ret
     /\ ret' # NoRet
     /\ ret'.op \in {"set_station_code", "set_operating_mode",
                     "set_baud_rate"}
     /\ ret'.exc = "InvalidArgument")
        => /\ op = Idle
           /\ op' = Idle
           /\ sent' = <<>>
           /\ UNCHANGED <<inbuf, pending, stationVars, sessionVars, cardVars>>

C22_ProtoByteWritten ==
    (ret.op \in {"set_autosend", "set_extended_protocol"})
        => LET a == ret.log[1].arg
               c == ret.log[1].cached
               w == sent[1].par[2]
               kept(k, b) == k \in DOMAIN c /\ Bit(w, b) = c[k]
           IN
           /\ sendcmd.cmd = C_GET_SYS_VAL
           /\ ret.exc # "BufferNotEmpty"
                => /\ Len(sent) >= 1
                   /\ sent[1].cmd = C_SET_SYS_VAL
                   /\ Len(sent[1].par) = 2
                   /\ sent[1].par[1] = O_PROTO
                   /\ kept("pw_access", 4)
                   /\ kept("punch_read", 7)
                   /\ IF ret.op = "set_autosend"
                      THEN /\ Bit(w, 1) = a
                           /\ Bit(w, 2) = ~a
                           /\ kept("ext_proto", 0)
                      ELSE /\ Bit(w, 0) = a
                           /\ kept("auto_send", 1)
                           /\ kept("handshake", 2)

\* C23: the extended-protocol backup record 01 00 2A 5C C3 1C 20 80 (card
\* bytes 01 00 2A) is reported by read_backup with card number 65578
\* (0x01002A).
C23_BackupCardNumber ==
    (ret.op = "read_backup" /\ ret.exc = "none" /\ "end" \in DOMAIN ret)
        => \A k \in DOMAIN ret.val :
            SubSeq(backup, BUX_SIZE * (k - 1) + 1, BUX_SIZE * k)
                    = <<1, 0, 42, 92, 195, 28, 32, 128>>
                => ret.val[k].cn = 65578

\* C23, as the code has it: the record is reported with card number 42 (the
\* low two bytes; 0x01002A is below 500000 and the series byte 1 is not
\* printed), dated 2023-03-01 14:00:00.5.
C23_BackupCardNumberSeries ==
    (ret.op = "read_backup" /\ ret.exc = "none" /\ "end" \in DOMAIN ret)
        => \A k \in DOMAIN ret.val :
            SubSeq(backup, BUX_SIZE * (k - 1) + 1, BUX_SIZE * k)
                    = <<1, 0, 42, 92, 195, 28, 32, 128>>
                => ret.val[k] = [cn |-> 42, year |-> 2023, month |-> 3,
                                 day |-> 1, secs |-> 50400, us |-> 500000,
                                 x |-> -1, err |-> <<FALSE, FALSE>>]

\* C23 witness: read_backup returned seventeen records, the second one with
\* card number 42.
C23_Witness ==
    /\ ret.op = "read_backup"
    /\ ret.exc = "none"
    /\ Len(ret.val) = 17
    /\ SubSeq(backup, 9, 16) = <<1, 0, 42, 92, 195, 28, 32, 128>>
    /\ ret.val[2].cn = 42

\* C24: get_station_code() returns the 2-byte station field of the most
\* recently received response frame: a step that reads the header of a frame
\* stores the frame's station field as the cached station code, whatever
\* else is wrong with the frame, and no other step changes the cached
\* station code.
C24_StationCodeStep ==
    LET header == /\ inbuf # <<>>
                  /\ inbuf' = Tail(inbuf)
                  /\ Head(inbuf).kind \in {"ok", "etx", "crc"}
    IN /\ header => station_code' = Head(inbuf).station
       /\ ~header => station_code' = station_code

C24_StationCodeOfLastFrame == [][C24_StationCodeStep]_vars

\* C25: scan_stations starts one probe per candidate port, waits for all of
\* them before it returns, and returns exactly one (port, station code) entry
\* for every port whose probe succeeded and none for a port whose probe
\* failed, in every interleaving of the probes.
C25_ScanEntries ==
    ret.op = "scan_stations"
        => /\ DOMAIN ret.log = {"a", "b"}
           /\ \A port \in {"a", "b"} :
               /\ ret.log[port] \in {"done", "failed"}
               /\ Cardinality({k \in DOMAIN ret.val : ret.val[k][1] = port})
                      = IF ret.log[port] = "done" THEN 1 ELSE 0
           /\ \A k \in DOMAIN ret.val : ret.val[k][2] = StationField(stSys)

\* C25, with its last part: every probe's session has been closed when
\* scan_stations returns.
C25_ScanStations ==
    /\ C25_ScanEntries
    /\ ret.op = "scan_stations" => serial.open = {}

\* C26: poll_sicard raises an exception if a frame other than a card insert
\* or card remove event is received while polling: the round of its loop
\* that reads such a frame ends the call with an exception.
C26_OtherFrameStep ==
    (/\ op.name = "poll_sicard"
     /\ inbuf # <<>>
     /\ inbuf' = Tail(inbuf)
     /\ Head(inbuf).kind = "ok"
     /\ Head(inbuf).cmd \notin {C_SI_REM, C_SI5_DET, C_SI6_DET, C_SI9_DET})
        => /\ ret'.op = "poll_sicard"
           /\ ret'.exc # "none"

C26_PollRaisesOnOtherFrame == [][C26_OtherFrameStep]_vars

\* C27: the outcome of response parsing: a leading WAKEUP byte is skipped; no
\* byte gives Timeout; NAK gives InvalidCommand; any other byte that is not
\* STX flushes the input buffer and gives FramingError; after STX the parser
\* reads cmd, len, 2 station bytes, len - 2 data bytes, 2 CRC bytes and 1 ETX
\* byte, gives FramingError if the last byte is not ETX, ChecksumError if the
\* CRC over cmd|len|station|data differs from the received one, and
\* otherwise returns (cmd, data).  (Stated for length bytes of 2 and more.)
C27_ParseOutcome ==
    (ret.op = "read_command")
        => LET f == ret.frame
               g == IF f # <<>> /\ f[1] = WAKEUP THEN Tail(f) ELSE f
               len == IF Len(g) >= 3 THEN g[3] ELSE 2
               last == len + 6
           IN
           len >= 2
             => IF g = <<>> THEN ret.exc = "Timeout"
                ELSE IF g[1] = NAK THEN ret.exc = "InvalidCommand"
                ELSE IF g[1] # STX
                THEN ret.exc = "FramingError" /\ inbuf = <<>>
                ELSE IF Len(g) < last \/ g[last] # ETX
                THEN ret.exc = "FramingError"
                ELSE IF Crc(SubSeq(g, 2, len + 3))
                            # SubSeq(g, len + 4, len + 5)
                THEN ret.exc = "ChecksumError"
                ELSE /\ ret.exc = "none"
                     /\ ret.cmd = <<g[2]>>
                     /\ ret.data = SubSeq(g, 6, len + 3)

\* C28: every failure of response parsing is reported as one of Timeout,
\* InvalidCommand, FramingError, ChecksumError or Io, also for a frame that
\* is cut short by the read timeout after its STX.
C28_ParseFailureKinds ==
    (ret.op = "read_command")
        => ret.exc \in {"none", "Timeout", "InvalidCommand", "FramingError",
                        "ChecksumError", "Io"}

\* C29: the punch list of a decoded card contains, in card order, exactly
\* those of the first min(count, PM) punch records whose 2-byte time is not
\* EE EE, count being the punch counter of the card (for SI5 the counter
\* less one, so that a counter of 0 or 1 gives an empty list) and PM the
\* punch maximum of the family (SI5 30, SI8 50); a record with time EE EE is
\* dropped and does not shift the position of the records after it.
C29_PunchList ==
    (ret.op = "decode_carddata" /\ ret.exc = "none")
        => LET data == ret.arg.data
               si5 == ret.arg.card_type = "SI5"
               count == IF si5 THEN data[24] - 1 ELSE data[23]
               pm == IF si5 THEN 30 ELSE 50
               n == IF count < 0 THEN 0 ELSE IF count > pm THEN pm ELSE count
               th == IF si5 THEN 1 ELSE 2
               Timed(o) == <<data[o + th + 1], data[o + th + 2]>> # <<238, 238>>
               records == [j \in 1..n |-> RecordOffset(ret.arg.card_type, j - 1)]
               punches == ret.val.punches
           IN
           /\ ret.val.reads = records
           /\ [k \in 1..Len(punches) |-> punches[k].at]
                  = SelectSeq(records, Timed)
           /\ \A k \in 1..Len(punches) :
                  punches[k].time
                      = 15 * DaySeconds
                        + data[punches[k].at + th + 1] * 256
                        + data[punches[k].at + th + 2]
                        - (IF si5 THEN 0 ELSE 86400)

\* C29 witness: an SI5 card with punch counter 7 whose records 1 and 2 have
\* no time was decoded: six records read, four punches.
C29_Witness ==
    /\ ret.op = "decode_carddata"
    /\ ret.exc = "none"
    /\ ret.arg.card_type = "SI5"
    /\ ret.arg.data[24] = 7
    /\ ret.val.reads = <<33, 36, 39, 42, 45, 49>>
    /\ [k \in 1..Len(ret.val.punches) |-> ret.val.punches[k].at]
           = <<33, 42, 45, 49>>

\* C30: for an SI5 card the k-th punch record (k = 0..29) is read from
\* offset 33 + 16 * (k div 5) + 3 * (k mod 5): the first byte of every
\* block of 16 bytes of the punch area (32, 48, ..., 112) is skipped and is
\* in no punch record, and no record is read beyond offset 127.
C30_Si5Offsets ==
    (ret.op = "decode_carddata" /\ ret.arg.card_type = "SI5")
        => LET reads == ret.val.reads IN
           /\ Len(reads) <= 30
           /\ \A k \in 0..(Len(reads) - 1) :
               /\ reads[k + 1] = 33 + 16 * (k \div 5) + 3 * (k % 5)
               /\ \A o \in reads[k + 1]..(reads[k + 1] + 2) :
                      o % 16 # 0 /\ o <= 127

\* C30 witness: an SI5 card with punch counter 37 was decoded: thirty
\* records read, the sixth at offset 49 and the last at offset 125.
C30_Witness ==
    /\ ret.op = "decode_carddata"
    /\ ret.arg.card_type = "SI5"
    /\ ret.arg.data[24] = 37
    /\ Len(ret.val.reads) = 30
    /\ ret.val.reads[6] = 49
    /\ ret.val.reads[30] = 125

\* C31: for an 8-byte record CN[3] YM MDAP SECS[2] MS of the extended
\* protocol with a valid day of month read_backup yields year
\* 2000 + (YM >> 2), month ((YM & 3) << 2) | (MDAP >> 6), day
\* (MDAP & 0x3F) >> 1 and the time date + SECS + 12 h * (MDAP & 1)
\* + MS * 1000000 / 256 microseconds (to the nearest microsecond) with an
\* empty error tag; month 0 is December of the year before and month 13..15
\* month - 12 of the year after, each tagged ErrDate; when the high byte of
\* SECS is 0xF0 or more the record is tagged ErrX, X the low nibble of that
\* byte, and its time of day is 00:00 or 12:00 of the decoded date
\* (5C C3 1C 20 80 gives 2023-03-01 14:00:00.5).
C31_ExtRecord ==
    (ret.op = "read_backup" /\ ret.exc = "none" /\ "end" \in DOMAIN ret
        /\ proto_config.ext_proto)
        => \A k \in DOMAIN ret.val :
            LET rec == SubSeq(backup, 8 * (k - 1) + 1, 8 * k)
                ym == rec[4]
                mdap == rec[5]
                month == 4 * (ym % 4) + mdap \div 64
                year == 2000 + ym \div 4
                pm == mdap % 2
                r == ret.val[k]
            IN
            /\ r.day = (mdap % 64) \div 2
            /\ month \in 1..12 => r.year = year /\ r.month = month
            /\ month = 0 => r.year = year - 1 /\ r.month = 12
            /\ month > 12 => r.year = year + 1 /\ r.month = month - 12
            /\ r.err[2] <=> month \notin 1..12
            /\ r.err[1] <=> rec[6] >= 240
            /\ rec[6] >= 240
                  => r.x = rec[6] % 16 /\ r.secs = 43200 * pm /\ r.us = 0
            /\ rec[6] < 240
                  => /\ r.x = -1
                     /\ r.secs = 256 * rec[6] + rec[7] + 43200 * pm
                     /\ 256 * r.us - 1000000 * rec[8] \in -128..128
            /\ SubSeq(rec, 4, 8) = <<92, 195, 28, 32, 128>>
                  => /\ <<r.year, r.month, r.day>> = <<2023, 3, 1>>
                     /\ <<r.secs, r.us>> = <<14 * 3600, 500000>>
                     /\ r.err = <<FALSE, FALSE>>

\* C31 witness: read_backup returned thirty-three records of the extended
\* protocol, among them one with month 0, one with month 13, one with an
\* error code, one with an error code and month 15 and one with odd
\* subseconds.
C31_Witness ==
    /\ ret.op = "read_backup"
    /\ ret.exc = "none"
    /\ proto_config.ext_proto
    /\ Len(ret.val) = 33
    /\ <<ret.val[7].year, ret.val[7].month, ret.val[7].err>>
           = <<2023, 12, <<FALSE, TRUE>>>>
    /\ <<ret.val[8].year, ret.val[8].month, ret.val[8].err>>
           = <<2025, 1, <<FALSE, TRUE>>>>
    /\ <<ret.val[9].x, ret.val[9].secs, ret.val[9].us>> = <<3, 43200, 0>>
    /\ <<ret.val[10].x, ret.val[10].err>> = <<10, <<TRUE, TRUE>>>>
    /\ ret.val[11].us = 23438

\* C32: for a record of the legacy protocol read_backup derives the weekday
\* from the bits 3..1 of PTD as decode_time does: the record is returned and
\* its weekday is (((PTD >> 1) & 7) - 1) mod 7, Monday 0 and Sunday 6.
C32_LegacyWeekday ==
    (ret.op = "read_backup" /\ "end" \in DOMAIN ret
        /\ ~proto_config.ext_proto)
        => /\ ret.exc = "none"
           /\ Len(ret.val) = Len(backup) \div BUL_SIZE
           /\ \A k \in DOMAIN ret.val :
                ret.val[k].weekday
                    = (((backup[BUL_SIZE * (k - 1) + 5] \div 2) % 8) - 1) % 7

\* C33: a record of the legacy protocol is dated by read_backup on the most
\* recent day with its weekday within the seven days before the host clock:
\* the record is returned, day_offset is 0 or more, and the time is not
\* later than now + 1 h and less than 7 days before now + 1 h (ago: the
\* seconds from the time returned to now).
C33_LegacyWithinWeek ==
    (ret.op = "read_backup" /\ "end" \in DOMAIN ret
        /\ ~proto_config.ext_proto)
        => /\ Len(backup) > 0 => ret.exc # "TypeError"
           /\ ret.exc = "none"
                => \A k \in 1..(Len(backup) \div BUL_SIZE) :
                    /\ ret.val[k].day_offset >= 0
                    /\ ret.val[k].ago >= -3600
                    /\ ret.val[k].ago < 7 * DaySeconds - 3600

\* C34: once connecting has succeeded, proto_config has all its six fields
\* (ext_proto, auto_send, handshake, pw_access, punch_read, mode) whenever
\* no call is in progress, also after a setter or a re-fetch of SYSVAL that
\* failed: a failed re-fetch leaves the previous proto_config in place and
\* not an empty one.
C34_ProtoConfigComplete ==
    op.name = "idle"
        => DOMAIN proto_config = {"ext_proto", "auto_send", "handshake",
                                  "pw_access", "punch_read", "mode"}

\* C35: in every state of SIReaderReadout the pair (sicard, cardtype) is
\* consistent: both are None, or cardtype is the family of the card with
\* the number sicard; a C_SI9_DET frame with a number outside the known
\* ranges (UnknownCardType) does not leave the new number in sicard beside
\* the family of the card before, or beside None.
C35_CardPairConsistent ==
    /\ sicard = NoCard <=> cardtype = "None"
    /\ cardtype = "SI9" => sicard \in 1000000..1999999
    /\ cardtype = "SI8" => sicard \in 2000000..2999999
    /\ cardtype = "pCard" => sicard \in 4000000..4999999
    /\ cardtype = "SI10" => sicard \in 7000000..9999999
    /\ (ret.op = "_read_command" /\ ret.exc = "UnknownCardType")
          => <<sicard, cardtype>> \in {ret.before, <<NoCard, "None">>}

\* C36: when a card of the family SI6, SI8, SI9, SI10/11 or pCard is
\* decoded, the station code of each punch is ((PTD & 0xC0) << 2) | CN of
\* the PTD and CN bytes of the record of that punch, whatever the day byte
\* of the start, finish, check or clear field of the card is.
C36_PunchStationCode ==
    (ret.op = "decode_carddata" /\ ret.arg.card_type = "SI8"
        /\ ret.exc = "none")
        => \A k \in DOMAIN ret.val.punches :
            LET p == ret.val.punches[k]
                ptd == ret.arg.data[p.at + 1]
                cn == ret.arg.data[p.at + 2]
            IN p.cn = 256 * (ptd \div 64) + cn

\* C37: set_feedback changes only bit 0 (optical) and bit 2 (audible) of the
\* feedback byte of the station: whatever was called before, also a
\* set_station_code after the SYSVAL image was cached, a step in which the
\* station takes the write of set_feedback leaves every other byte, the
\* other bits of the feedback byte and with them the station code (code
\* byte and bits 7..6 of the feedback byte) as they were.
C37_FeedbackStep ==
    (op.name = "set_feedback" /\ stSys' # stSys)
        => /\ \A o \in DOMAIN stSys :
                o # O_FEEDBACK + 1 => stSys'[o] = stSys[o]
           /\ stSys'[O_FEEDBACK + 1] \div 8 = stSys[O_FEEDBACK + 1] \div 8
           /\ Bit(stSys'[O_FEEDBACK + 1], 1) = Bit(stSys[O_FEEDBACK + 1], 1)
           /\ StationField(stSys') = StationField(stSys)

C37_FeedbackKeepsCode == [][C37_FeedbackStep]_vars

\* C38: poll_punch loses no punch across calls: when a call that began with
\* a known _next_offset is over, the punch of every backup record between
\* that offset and the _next_offset it leaves has been returned by it, also
\* when the call ends with an exception (a failed recovery GET_BACKUP, a
\* non-empty input buffer, a CRC or framing error) after it has recovered
\* or received other punches.
C38_NoPunchLost ==
    (ret.op = "poll_punch" /\ ret.log # <<>> /\ ret.log[1].held # NoOffset)
        => LET returned == IF ret.exc = "none" THEN ret.val ELSE <<>>
               passed == {off \in ret.log[1].held..(next_offset - 1) :
                            (off - BackupBase) % REC_LEN = 0}
           IN \A off \in passed :
                \E i \in DOMAIN returned :
                    /\ returned[i].off = off
                    /\ returned[i].src \in {"rec", "cur"}

\* C39: the (cmd, data) that _send_command returns for a request is the
\* reply of the station to that request: a step in which _send_command
\* returns a frame returns a frame of the command that was sent, never an
\* unsolicited frame (the C_TRANS_REC of an autosend punch, a card event)
\* that came in between the request and its reply.
C39_ReplyStep ==
    (/\ op.todo # <<>>
     /\ Head(op.todo).k = "reply"
     /\ ~sendcmd.done
     /\ sendcmd'.done
     /\ sendcmd'.exc = "none")
        => /\ inbuf # <<>>
           /\ Head(inbuf).kind = "ok"
           /\ Head(inbuf).cmd = sendcmd.cmd

C39_ReplyIsOfRequest == [][C39_ReplyStep]_vars

====
